---- MODULE Spec2Model ----
(***************************************************************************)
(* The classic DEVS abstract simulator of YapDEVS (classic_devs.py) with   *)
(* the Generator and Processor example models.  The synchronous, recursive *)
(* message dispatch of the simulators is modelled as a machine with an     *)
(* explicit call stack: one step per handler invocation, per delivery of a *)
(* handler's loop, and per mailbox scan of an activation.                  *)
(***************************************************************************)
EXTENDS Integers, Sequences, FiniteSets, TLC

VARIABLES st,   \* the run: models, simulators, mailboxes, call stack
          tw,   \* a second run of the same model tree and end time
          sel,  \* a call of select: its arguments and its result
          bld   \* a call of build of a coupled model: its specs and its result

vars == <<st, tw, sel, bld>>

---------------------------------------------------------------------------
(* Bounds of the model *)

\* largest period / service time given to the example models
MaxPeriod == 4
\* number of handler executions the observation log keeps
MaxLog == 16

(* Values of the program *)

\* math.inf
inf == 1000
\* the value None of time_last / time_next before the first updateTimes
NoTime == -2
\* the initial (time_last, time_next) of the root coordinator and INIT time
RootTimeLast == -1
RootTimeNext == 0
None == "None"
\* the value None returned by an output callback
NoOutput == <<>>
\* the value False returned by select when no spec matches
False == "<False>"
RootCoord == "RootCoord"

\* MsgType
T_INIT == 0
T_STAR == 1
T_OUT == 2
T_IN == 3
T_DONE == 4
MSG_COUNT == 5

Min(S) == CHOOSE x \in S : \A y \in S : x <= y
Max(S) == CHOOSE x \in S : \A y \in S : x >= y
Range(q) == {q[i] : i \in 1..Len(q)}

\* float addition mtime + ta with math.inf
Plus(a, b) == IF a = inf \/ b = inf THEN inf ELSE a + b

---------------------------------------------------------------------------
(* Model trees given to the root coordinator.  A scenario names the model   *)
(* class of the root, the parameters of its atomic models and the end time. *)

\* the documented run: CoupledGenerator with Generator(3) and Processor(4),
\* simulated until 10
Example == [model |-> "CoupledGenerator", p |-> 3, q |-> 4, e |-> 10]

Scenarios ==
  {[model |-> "CoupledGenerator", p |-> p, q |-> q, e |-> 10] :
      p \in 1..MaxPeriod, q \in 0..MaxPeriod}
  \cup {[model |-> "Nested", p |-> p, q |-> 2, e |-> 5] : p \in 2..MaxPeriod}
  \cup {[model |-> "Feedback", p |-> 3, q |-> q, e |-> 10] : q \in 1..2}
  \cup {[model |-> "OnlyGenerator", p |-> p, q |-> 0, e |-> 3] : p \in {0, 2}}
  \cup {[model |-> "OnlyProcessor", p |-> 0, q |-> 4, e |-> 10],
        [model |-> "EmptyCoupled", p |-> 0, q |-> 0, e |-> 1],
        [model |-> "NestedEmpty", p |-> 3, q |-> 0, e |-> 1],
        [model |-> "EntersX", p |-> 0, q |-> 0, e |-> 5],
        [model |-> "NoInternal", p |-> 0, q |-> 0, e |-> 5],
        [model |-> "SelfLoop", p |-> 3, q |-> 1, e |-> 4],
        [model |-> "NoBody", p |-> 0, q |-> 0, e |-> 1],
        [model |-> "NoPort", p |-> 0, q |-> 0, e |-> 1],
        [model |-> "Uncoupled", p |-> 2, q |-> 0, e |-> 3],
        [model |-> "NestedUncoupled", p |-> 3, q |-> 2, e |-> 5],
        [model |-> "NoSelect", p |-> 3, q |-> 4, e |-> 10],
        [model |-> "BadWinner", p |-> 3, q |-> 4, e |-> 10]}

\* name of the root model (createRootSim: the root model is a coupled model,
\* the root coordinator calls build() of its simulator)
RootModel(c) ==
  CASE c.model \in {"Nested", "NestedEmpty", "NestedUncoupled"} -> "top"
    [] c.model = "Sub" -> "sub"
    [] c.model = "Processor" -> "proc"
    [] OTHER -> "coupled"

\* subModelsSpecs: the submodel names of each coupled model, in declaration order
subModelsSpecs(c) ==
  CASE c.model \in {"CoupledGenerator", "NoSelect", "BadWinner"} ->
         [coupled |-> <<"gen", "proc">>]
    [] c.model \in {"Nested", "NestedUncoupled"} ->
         [top |-> <<"gen", "sub">>, sub |-> <<"proc">>]
    [] c.model = "NestedEmpty" -> [top |-> <<"gen", "sub">>, sub |-> <<>>]
    [] c.model = "Sub" -> [sub |-> <<"proc">>]
    [] c.model = "Processor" -> <<>>
    [] c.model \in {"Feedback", "SelfLoop"} -> [coupled |-> <<"gen", "proc">>]
    [] c.model \in {"OnlyGenerator", "Uncoupled"} -> [coupled |-> <<"gen">>]
    [] c.model = "OnlyProcessor" -> [coupled |-> <<"proc">>]
    [] c.model = "EmptyCoupled" -> [coupled |-> <<>>]
    [] c.model \in {"EntersX", "NoInternal", "NoBody", "NoPort"} ->
         [coupled |-> <<"stub">>]

\* the routing table of each coupled model: source name -> destination names
getCouplings(c) ==
  CASE c.model \in {"CoupledGenerator", "NoSelect", "BadWinner"} ->
         [coupled |-> [gen |-> <<"proc">>, proc |-> <<"self">>]]
    [] c.model = "Nested" ->
         [top |-> [gen |-> <<"sub">>, sub |-> <<"self">>],
          sub |-> [self |-> <<"proc">>, proc |-> <<"self">>]]
    [] c.model = "NestedEmpty" -> [top |-> [gen |-> <<"self">>], sub |-> <<>>]
    [] c.model = "Sub" -> [sub |-> [self |-> <<"proc">>, proc |-> <<"self">>]]
    [] c.model = "Processor" -> <<>>
    [] c.model = "Feedback" ->
         [coupled |-> [gen |-> <<"proc">>, proc |-> <<"gen", "self">>]]
    [] c.model = "SelfLoop" ->
         [coupled |-> [gen |-> <<"proc">>, proc |-> <<"proc", "self">>]]
    [] c.model = "OnlyGenerator" -> [coupled |-> [gen |-> <<"self">>]]
    [] c.model \in {"OnlyProcessor", "EmptyCoupled", "Uncoupled"} -> [coupled |-> <<>>]
    [] c.model = "NestedUncoupled" -> [top |-> [gen |-> <<"sub">>], sub |-> <<>>]
    [] c.model \in {"EntersX", "NoInternal", "NoBody", "NoPort"} ->
         [coupled |-> [stub |-> <<"self">>]]

\* selectSpecs: (set, winner) pairs of each coupled model, in declaration order
getSelectSpecs(c) ==
  CASE c.model = "CoupledGenerator" -> [coupled |-> << <<{"proc", "gen"}, "proc">> >>]
    [] c.model \in {"Nested", "NestedUncoupled"} ->
         [top |-> << <<{"gen"}, "gen">>, <<{"s.*", ".*"}, "sub">> >>, sub |-> <<>>]
    [] c.model \in {"Feedback", "SelfLoop"} ->
         [coupled |-> << <<{"proc", "gen"}, "proc">> >>]
    [] c.model = "BadWinner" -> [coupled |-> << <<{"proc", "gen"}, "sub">> >>]
    [] c.model = "NestedEmpty" -> [top |-> <<>>, sub |-> <<>>]
    [] c.model = "Sub" -> [sub |-> <<>>]
    [] OTHER -> [coupled |-> <<>>]

Coupleds(c) == DOMAIN subModelsSpecs(c)
Atomics(c) ==
  ({RootModel(c)} \cup UNION {Range(subModelsSpecs(c)[m]) : m \in Coupleds(c)})
     \ Coupleds(c)
Sims(c) == Coupleds(c) \cup Atomics(c)

\* the class of an atomic model
ModelClass(c, a) ==
  CASE a = "gen" -> "Generator"
    [] a = "proc" -> "Processor"
    [] a = "stub" -> c.model
\* the constructor argument of an atomic model
Period(c, a) == IF a = "gen" THEN c.p ELSE c.q

\* getParent: the simulator a simulator was constructed with
getParent(c, m) ==
  IF m = RootModel(c) THEN RootCoord
  ELSE CHOOSE k \in Coupleds(c) : m \in Range(subModelsSpecs(c)[k])

RECURSIVE getPath(_, _)
\* HierarchicalModel.build: path + '/' + name, as the sequence of names
getPath(c, m) ==
  IF m = RootModel(c) THEN <<m>> ELSE Append(getPath(c, getParent(c, m)), m)

---------------------------------------------------------------------------
(* Select: the tie-breaking function of a coupled model *)

\* the characters of the names and patterns used in select specs
Spell ==
  [n \in {"gen", "proc", "sub", "proc:0", "proc:1", "proc.*", ".*", "s.*"} |->
     CASE n = "gen" -> <<"g", "e", "n">>
       [] n = "proc" -> <<"p", "r", "o", "c">>
       [] n = "sub" -> <<"s", "u", "b">>
       [] n = "proc:0" -> <<"p", "r", "o", "c", ":", "0">>
       [] n = "proc:1" -> <<"p", "r", "o", "c", ":", "1">>
       [] n = "proc.*" -> <<"p", "r", "o", "c", ".", "*">>
       [] n = ".*" -> <<".", "*">>
       [] n = "s.*" -> <<"s", ".", "*">>]

RECURSIVE reMatch(_, _)
\* re.fullmatch of a pattern made of literal characters, '.' and '*'
reMatch(pat, str) ==
  IF pat = <<>> THEN str = <<>>
  ELSE IF Len(pat) >= 2 /\ pat[2] = "*"
       THEN \/ reMatch(Tail(Tail(pat)), str)
            \/ /\ str # <<>>
               /\ pat[1] \in {".", str[1]}
               /\ reMatch(pat, Tail(str))
       ELSE /\ str # <<>>
            /\ pat[1] \in {".", str[1]}
            /\ reMatch(Tail(pat), Tail(str))

fullmatch(pattern, name) == reMatch(Spell[pattern], Spell[name])

\* the names of nameSet a spec's patterns match; matched is FALSE (None) when
\* one of the patterns matches no name
gather_match_from_spec(spec, nameSet) ==
  IF \E item \in spec[1] : {n \in nameSet : fullmatch(item, n)} = {}
  THEN [matched |-> FALSE, names |-> {}]
  ELSE [matched |-> TRUE,
        names |-> UNION {{n \in nameSet : fullmatch(item, n)} : item \in spec[1]}]

\* select written as one pass: each spec in turn is tried literally, then as patterns
select_onePass(specs, nameSet) ==
  LET hit(i) == \/ nameSet = specs[i][1]
                \/ LET g == gather_match_from_spec(specs[i], nameSet)
                   IN g.matched /\ g.names = nameSet
      hits == {i \in 1..Len(specs) : hit(i)}
  IN IF hits # {} THEN specs[Min(hits)][2] ELSE False

\* ClassicDevsCoupledModel.select: exact matching first, then regexp matching
select(specs, nameSet) ==
  LET exact == {i \in 1..Len(specs) : nameSet = specs[i][1]}
      regexp == {i \in 1..Len(specs) :
                   LET g == gather_match_from_spec(specs[i], nameSet)
                   IN g.matched /\ nameSet = g.names}
  IN IF exact # {} THEN specs[Min(exact)][2]
     ELSE IF regexp # {} THEN specs[Min(regexp)][2]
     ELSE False

---------------------------------------------------------------------------
(* The example atomic models: the callbacks of each phase *)

\* TraceDict(): the state of an atomic model, no job memorised, nothing missed
EmptyState == [job |-> <<>>, missed |-> 0]

Generator_onInternalWhen(phase, state) == [phase |-> "default", state |-> state]
Generator_onTaWhen(phase, period) == IF phase = "init" THEN 0 ELSE period
Generator_onOutWhen(phase, path) ==
  IF phase = "init" THEN NoOutput ELSE <<"job", path>>

Processor_onInternalWhen(phase, state) == [phase |-> "idle", state |-> state]
Processor_onTaWhen(phase, period) ==
  CASE phase = "init" -> 0
    [] phase = "idle" -> inf
    [] phase = "busy" -> period
Processor_onOutWhen(phase, state) ==
  IF phase = "init" THEN NoOutput ELSE <<"job", state.job>>
\* accepted is the truth value of the callback's result: (phase, state) or False
Processor_onExternalWhen(phase, state, input) ==
  IF phase = "idle"
  THEN [accepted |-> TRUE, phase |-> "busy", state |-> [state EXCEPT !.job = input[2]]]
  ELSE [accepted |-> FALSE, phase |-> phase,
        state |-> [state EXCEPT !.missed = @ + 1]]

\* Two more atomic model classes, written to the same callback convention.
\* EntersX leaves phase init for a phase x that has no callback at all;
\* NoInternal outputs in phase init and has no internal transition for it;
\* NoBody and NoPort output a pair without message or without port in phase
\* init and are passive in phase x.
Stub_onTaWhen(phase) == IF phase = "x" THEN inf ELSE 0
Stub_onOutWhen(class, path) ==
  CASE class = "NoInternal" -> <<"job", path>>
    [] class = "NoBody" -> <<"job", None>>
    [] class = "NoPort" -> <<None, path>>
    [] OTHER -> NoOutput
Stub_onInternalWhen(phase, state) == [phase |-> "x", state |-> state]

\* getattr(self, method_name, ...) finds a method of the model's class
HasCallback(class, operation, phase) ==
  CASE class = "Generator" ->
         operation \in {"onInternalWhen", "onTaWhen", "onOutWhen"}
         /\ phase \in {"init", "default"}
    [] class = "Processor" ->
         \/ operation \in {"onInternalWhen", "onOutWhen"} /\ phase \in {"init", "busy"}
         \/ operation = "onTaWhen" /\ phase \in {"init", "idle", "busy"}
         \/ operation = "onExternalWhen" /\ phase \in {"idle", "busy"}
    [] class = "EntersX" ->
         operation \in {"onInternalWhen", "onTaWhen", "onOutWhen"} /\ phase = "init"
    [] class = "NoInternal" ->
         operation \in {"onTaWhen", "onOutWhen"} /\ phase = "init"
    [] class \in {"NoBody", "NoPort"} ->
         \/ operation \in {"onInternalWhen", "onTaWhen", "onOutWhen"} /\ phase = "init"
         \/ operation = "onTaWhen" /\ phase = "x"

\* the callback <operation>_<phase> of the model's class, called
TaValue(c, a, phase) ==
  CASE ModelClass(c, a) = "Generator" -> Generator_onTaWhen(phase, Period(c, a))
    [] ModelClass(c, a) = "Processor" -> Processor_onTaWhen(phase, Period(c, a))
    [] OTHER -> Stub_onTaWhen(phase)
OutValue(c, a, phase, state) ==
  CASE ModelClass(c, a) = "Generator" -> Generator_onOutWhen(phase, getPath(c, a))
    [] ModelClass(c, a) = "Processor" -> Processor_onOutWhen(phase, state)
    [] OTHER -> Stub_onOutWhen(ModelClass(c, a), getPath(c, a))
InternalValue(c, a, phase, state) ==
  CASE ModelClass(c, a) = "Generator" -> Generator_onInternalWhen(phase, state)
    [] ModelClass(c, a) = "Processor" -> Processor_onInternalWhen(phase, state)
    [] OTHER -> Stub_onInternalWhen(phase, state)

\* the exception of the default lambda: it names the method, "<operation>_<phase>"
MissingMethod(operation, phase) ==
  <<"Exception", "missing method implementation", operation, phase>>

\* dispatch that falls back to a default value when the callback is missing
onTa_default(c, a, phase, state) ==
  IF HasCallback(ModelClass(c, a), "onTaWhen", phase)
  THEN [raised |-> FALSE, exc |-> <<>>,
        val |-> TaValue(c, a, phase)]
  ELSE [raised |-> FALSE, exc |-> <<>>, val |-> inf]

\* ClassicDevsAtomicModel.__onTa
onTa(c, a, phase, state) ==
  IF HasCallback(ModelClass(c, a), "onTaWhen", phase)
  THEN [raised |-> FALSE, exc |-> <<>>,
        val |-> TaValue(c, a, phase)]
  ELSE [raised |-> TRUE, exc |-> MissingMethod("onTaWhen", phase), val |-> 0]

\* ClassicDevsAtomicModel.__onOut
onOut(c, a, phase, state) ==
  IF HasCallback(ModelClass(c, a), "onOutWhen", phase)
  THEN [raised |-> FALSE, exc |-> <<>>,
        val |-> OutValue(c, a, phase, state)]
  ELSE [raised |-> TRUE, exc |-> MissingMethod("onOutWhen", phase), val |-> NoOutput]

\* ClassicDevsAtomicModel.__onInternal
onInternal(c, a, phase, state) ==
  IF HasCallback(ModelClass(c, a), "onInternalWhen", phase)
  THEN LET r == InternalValue(c, a, phase, state)
       IN [raised |-> FALSE, exc |-> <<>>, phase |-> r.phase, state |-> r.state]
  ELSE [raised |-> TRUE, exc |-> MissingMethod("onInternalWhen", phase),
        phase |-> phase, state |-> state]

\* ClassicDevsAtomicModel.__onExternal (no class but Processor defines the callback);
\* input[1]['job'] of an input without message body is a TypeError
onExternal(c, a, phase, state, elapsed, input) ==
  IF ~HasCallback(ModelClass(c, a), "onExternalWhen", phase)
  THEN [raised |-> TRUE, exc |-> MissingMethod("onExternalWhen", phase),
        accepted |-> FALSE, phase |-> phase, state |-> state, elapsed |-> elapsed]
  ELSE IF phase = "idle" /\ input[2] = <<>>
  THEN [raised |-> TRUE, exc |-> <<"TypeError">>,
        accepted |-> FALSE, phase |-> phase, state |-> state, elapsed |-> elapsed]
  ELSE LET r == Processor_onExternalWhen(phase, state, input)
       IN [raised |-> FALSE, exc |-> <<>>, accepted |-> r.accepted,
           phase |-> r.phase, state |-> r.state, elapsed |-> elapsed]

---------------------------------------------------------------------------
(* Simulators: messages, mailboxes, the call stack *)

SimMsg(type, from, time, param) ==
  [type |-> type, from |-> from, time |-> time, param |-> param]
InitMsg(from, time) == SimMsg(T_INIT, from, time, <<>>)
StarMsg(from, time) == SimMsg(T_STAR, from, time, <<>>)
InMsg(from, time, x) == SimMsg(T_IN, from, time, x)
OutMsg(from, time, y) == SimMsg(T_OUT, from, time, y)
DoneMsg(from, time) == SimMsg(T_DONE, from, time, <<>>)
NoMsg == SimMsg(MSG_COUNT, "", 0, <<>>)

\* a call of activate(): mt is the next message type of its for loop, msgs the
\* rest of the copied list it iterates
ActivateFrame(sim) ==
  [f |-> "activate", sim |-> sim, mt |-> 0, msgs |-> <<>>, msg |-> NoMsg,
   dests |-> <<>>]
\* a call of a handler that activates simulators: dests is the rest of its loop
HandlerFrame(sim, msg, dests) ==
  [f |-> "handler", sim |-> sim, mt |-> 0, msgs |-> <<>>, msg |-> msg,
   dests |-> dests]

\* the state after the construction of the root coordinator, before start()
InitState(c, traced) ==
  [scn |-> c,
   traced |-> traced,
   pc |-> "start",
   phase |-> [a \in Atomics(c) |-> "init"],
   state |-> [a \in Atomics(c) |-> EmptyState],
   time_last |-> [x \in Sims(c) \cup {RootCoord} |->
                    IF x = RootCoord THEN RootTimeLast ELSE NoTime],
   time_next |-> [x \in Sims(c) \cup {RootCoord} |->
                    IF x = RootCoord THEN RootTimeNext ELSE NoTime],
   msg_queue |-> [x \in Sims(c) \cup {RootCoord} |-> [k \in 0..(MSG_COUNT - 1) |-> <<>>]],
   inbox |-> [x \in Sims(c) \cup {RootCoord} |-> <<>>],
   elapsed |-> [x \in Atomics(c) |-> NoTime],
   active_children |-> [x \in Coupleds(c) |-> <<>>],
   stack |-> <<>>,
   printed |-> <<>>,
   log |-> <<>>,
   returned |-> {},
   ev |-> [op |-> "init", sim |-> "", msg |-> NoMsg, note |-> ""],
   err |-> <<>>]

Top(s) == s.stack[Len(s.stack)]
Pop(s) == [s EXCEPT !.stack = SubSeq(@, 1, Len(@) - 1)]
Push(s, frame) == [s EXCEPT !.stack = Append(@, frame)]
Event(s, op, sim, msg, note) ==
  [s EXCEPT !.ev = [op |-> op, sim |-> sim, msg |-> msg, note |-> note]]
\* an exception propagates out of start(): the run is aborted
Raise(s, exc) == [s EXCEPT !.pc = "error", !.err = exc]

\* inbox keeps, in the order of their arrival, the messages a simulator has
\* not handled yet, and whether each arrived while the simulator was in an
\* activation that had reached the kind of the message
queue_msg(s, to, msg) ==
  LET reached == \E i \in 1..Len(s.stack) :
                    /\ s.stack[i].f = "activate" /\ s.stack[i].sim = to
                    /\ msg.type < s.stack[i].mt
  IN [s EXCEPT !.msg_queue[to][msg.type] = Append(@, msg),
               !.inbox[to] = Append(@, [msg |-> msg, late |-> reached])]
updateTimes(s, x, last, next) ==
  [s EXCEPT !.time_last[x] = last, !.time_next[x] = next]

\* what the handlers of the atomic simulators did, first MaxLog of them
Logged(s, a, msg, out, note) ==
  IF Len(s.log) >= MaxLog THEN s
  ELSE [s EXCEPT !.log = Append(@, [sim |-> a, type |-> msg.type, time |-> msg.time,
                                     out |-> out, note |-> note,
                                     phase |-> s.phase[a],
                                     time_last |-> s.time_last[a],
                                     time_next |-> s.time_next[a]])]

SimKind(s, x) ==
  IF x = RootCoord THEN "root"
  ELSE IF x \in Coupleds(s.scn) THEN "coupled" ELSE "atomic"

\* the handlers a simulator class overrides; the others raise NotImplementedError
Implemented(kind, type) ==
  CASE kind = "atomic" -> type \in {T_INIT, T_STAR, T_IN}
    [] kind = "coupled" -> TRUE
    [] kind = "root" -> type \in {T_OUT, T_DONE}

Running(s) == s.pc \notin {"done", "error"}
\* activate() is about to call the handler of the next message of its list
Dispatching(s, kind, type) ==
  /\ Running(s) /\ s.stack # <<>>
  /\ Top(s).f = "activate" /\ Top(s).msgs # <<>>
  /\ SimKind(s, Top(s).sim) = kind
  /\ Head(Top(s).msgs).type = type
\* a handler of a coupled simulator is in its loop
Looping(s, type) ==
  /\ Running(s) /\ s.stack # <<>>
  /\ Top(s).f = "handler" /\ Top(s).msg.type = type
\* the message being dispatched, and the state with it taken off the list
NextMsg(s) == Head(Top(s).msgs)
\* the inbox loses its first entry for the message
Taken(s) ==
  LET q == s.inbox[Top(s).sim]
      i == Min({k \in 1..Len(q) : q[k].msg = NextMsg(s)} \cup {Len(q) + 1})
  IN [s EXCEPT !.stack[Len(s.stack)].msgs = Tail(@),
               !.inbox[Top(s).sim] = SubSeq(q, 1, i - 1) \o SubSeq(q, i + 1, Len(q))]

---------------------------------------------------------------------------
(* ClassicDevsAbstractSimulator.activate *)

\* the for loop over the message types: the next non-empty queue is copied and
\* emptied; with none left the call returns
\* a call of activate begins: what is queued is no longer late
Entered(s) ==
  IF Top(s).mt = 0
  THEN [s EXCEPT !.inbox[Top(s).sim] = [i \in 1..Len(@) |-> [@[i] EXCEPT !.late = FALSE]]]
  ELSE s

\* an activate that reports to the parent when it finds no message at all
activate_reportsNothing(s) ==
  LET fr == Top(s)
      later == {k \in fr.mt..(MSG_COUNT - 1) : s.msg_queue[fr.sim][k] # <<>>}
      s1 == IF fr.mt = 0 /\ fr.sim # RootCoord
            THEN queue_msg(Entered(s), getParent(s.scn, fr.sim),
                           DoneMsg(fr.sim, s.time_next[fr.sim]))
            ELSE Entered(s)
  IN IF later = {}
     THEN Event([Pop(s1) EXCEPT !.returned = @ \cup {fr.sim}],
                "activate", fr.sim, NoMsg, IF fr.mt = 0 THEN "nothing" ELSE "return")
     ELSE LET k == Min(later)
          IN Event([Entered(s) EXCEPT !.stack[Len(s.stack)].mt = k + 1,
                                      !.stack[Len(s.stack)].msgs = s.msg_queue[fr.sim][k],
                                      !.msg_queue[fr.sim][k] = <<>>],
                   "activate", fr.sim, NoMsg, "copy")

\* an activate that looks again at the kinds it has already passed
activate_rescans(s) ==
  LET fr == Top(s)
      later == {k \in 0..(MSG_COUNT - 1) : s.msg_queue[fr.sim][k] # <<>>}
  IN IF later = {}
     THEN Event([Pop(Entered(s)) EXCEPT !.returned = @ \cup {fr.sim}],
                "activate", fr.sim, NoMsg, IF fr.mt = 0 THEN "nothing" ELSE "return")
     ELSE LET k == Min(later)
          IN Event([Entered(s) EXCEPT !.stack[Len(s.stack)].mt = k + 1,
                                      !.stack[Len(s.stack)].msgs = s.msg_queue[fr.sim][k],
                                      !.msg_queue[fr.sim][k] = <<>>],
                   "activate", fr.sim, NoMsg, "copy")

activate(s) ==
  LET fr == Top(s)
      later == {k \in fr.mt..(MSG_COUNT - 1) : s.msg_queue[fr.sim][k] # <<>>}
  IN IF later = {}
     THEN Event([Pop(Entered(s)) EXCEPT !.returned = @ \cup {fr.sim}],
                "activate", fr.sim, NoMsg, IF fr.mt = 0 THEN "nothing" ELSE "return")
     ELSE LET k == Min(later)
          IN Event([Entered(s) EXCEPT !.stack[Len(s.stack)].mt = k + 1,
                                      !.stack[Len(s.stack)].msgs = s.msg_queue[fr.sim][k],
                                      !.msg_queue[fr.sim][k] = <<>>],
                   "activate", fr.sim, NoMsg, "copy")

Step_activate(s) ==
  IF Running(s) /\ s.stack # <<>> /\ Top(s).f = "activate"
  THEN IF Top(s).msgs = <<>> THEN {activate(s)}
       ELSE IF ~Implemented(SimKind(s, Top(s).sim), NextMsg(s).type)
            THEN {Raise(Event(Taken(s), "activate", Top(s).sim, NextMsg(s), "raise"),
                        <<"NotImplementedError">>)}
            ELSE {}
  ELSE {}

---------------------------------------------------------------------------
(* ClassicDevsAtomicSimulator *)

Atomic_onINIT(s, self, msg) ==
  LET c == s.scn
      t == onTa(c, self, s.phase[self], s.state[self])
  IN IF t.raised THEN Raise(Logged(s, self, msg, NoOutput, "raise"), t.exc)
     ELSE LET s1 == updateTimes(s, self, msg.time, Plus(msg.time, t.val))
          IN Logged(queue_msg(s1, getParent(c, self), DoneMsg(self, s1.time_next[self])),
                    self, msg, NoOutput, "done")

\* an onSTAR that applies the internal transition first and computes the
\* output from the new phase and state
Atomic_onSTAR_outAfter(s, self, msg) ==
  LET c == s.scn
      par == getParent(c, self)
      d == onInternal(c, self, s.phase[self], s.state[self])
      s1 == [s EXCEPT !.phase[self] = d.phase, !.state[self] = d.state]
      o == onOut(c, self, s1.phase[self], s1.state[self])
      s2 == IF o.val # NoOutput THEN queue_msg(s1, par, OutMsg(self, msg.time, o.val))
            ELSE s1
      t == onTa(c, self, s2.phase[self], s2.state[self])
      s3 == updateTimes(s2, self, msg.time, Plus(msg.time, t.val))
  IN IF msg.time # s.time_next[self]
     THEN Raise(Logged(s, self, msg, NoOutput, "raise"),
                <<"Exception", "Star message requested at a time that is not reached yet!">>)
     ELSE IF d.raised THEN Raise(Logged(s, self, msg, NoOutput, "raise"), d.exc)
     ELSE IF o.raised THEN Raise(Logged(s1, self, msg, NoOutput, "raise"), o.exc)
     ELSE IF t.raised THEN Raise(Logged(s2, self, msg, o.val, "raise"), t.exc)
     ELSE Logged(queue_msg(s3, par, DoneMsg(self, s3.time_next[self])),
                 self, msg, o.val, "done")

\* an onSTAR that makes the transition whatever the time of the message
Atomic_onSTAR_unchecked(s, self, msg) ==
  LET c == s.scn
      par == getParent(c, self)
      o == onOut(c, self, s.phase[self], s.state[self])
      s1 == IF o.val # NoOutput THEN queue_msg(s, par, OutMsg(self, msg.time, o.val))
            ELSE s
      d == onInternal(c, self, s.phase[self], s.state[self])
      s2 == [s1 EXCEPT !.phase[self] = d.phase, !.state[self] = d.state]
      t == onTa(c, self, s2.phase[self], s2.state[self])
      s3 == updateTimes(s2, self, msg.time, Plus(msg.time, t.val))
  IN IF o.raised THEN Raise(Logged(s, self, msg, NoOutput, "raise"), o.exc)
     ELSE IF d.raised THEN Raise(Logged(s1, self, msg, o.val, "raise"), d.exc)
     ELSE IF t.raised THEN Raise(Logged(s2, self, msg, o.val, "raise"), t.exc)
     ELSE Logged(queue_msg(s3, par, DoneMsg(self, s3.time_next[self])),
                 self, msg, o.val, "done")

Atomic_onSTAR(s, self, msg) ==
  LET c == s.scn
      par == getParent(c, self)
      o == onOut(c, self, s.phase[self], s.state[self])
      s1 == IF o.val # NoOutput THEN queue_msg(s, par, OutMsg(self, msg.time, o.val))
            ELSE s
      d == onInternal(c, self, s.phase[self], s.state[self])
      s2 == [s1 EXCEPT !.phase[self] = d.phase, !.state[self] = d.state]
      t == onTa(c, self, s2.phase[self], s2.state[self])
      s3 == updateTimes(s2, self, msg.time, Plus(msg.time, t.val))
  IN IF msg.time # s.time_next[self]
     THEN Raise(Logged(s, self, msg, NoOutput, "raise"),
                <<"Exception", "Star message requested at a time that is not reached yet!">>)
     ELSE IF o.raised THEN Raise(Logged(s, self, msg, NoOutput, "raise"), o.exc)
     ELSE IF d.raised THEN Raise(Logged(s1, self, msg, o.val, "raise"), d.exc)
     ELSE IF t.raised THEN Raise(Logged(s2, self, msg, o.val, "raise"), t.exc)
     ELSE Logged(queue_msg(s3, par, DoneMsg(self, s3.time_next[self])),
                 self, msg, o.val, "done")

\* an onIN that does not acknowledge an input its model rejects
Atomic_onIN_silentReject(s, self, msg) ==
  LET c == s.scn
      elapsed == msg.time - s.time_last[self]
      x == onExternal(c, self, s.phase[self], s.state[self], elapsed, msg.param)
      s1 == [s EXCEPT !.phase[self] = x.phase, !.state[self] = x.state,
                      !.elapsed[self] = x.elapsed]
      t == onTa(c, self, s1.phase[self], s1.state[self])
      s2 == updateTimes(s1, self, msg.time, Plus(msg.time, t.val))
  IN IF ~(s.time_last[self] <= msg.time /\ msg.time <= s.time_next[self])
     THEN Raise(Logged(s, self, msg, NoOutput, "raise"),
                <<"Exception", "In message requested at wrong time">>)
     ELSE IF x.raised THEN Raise(Logged(s, self, msg, NoOutput, "raise"), x.exc)
     ELSE IF ~x.accepted THEN Logged(s1, self, msg, NoOutput, "rejected")
     ELSE IF t.raised THEN Raise(Logged(s1, self, msg, NoOutput, "raise"), t.exc)
     ELSE Logged(queue_msg(s2, getParent(c, self), DoneMsg(self, s2.time_next[self])),
                 self, msg, NoOutput, "accepted")

\* an onIN that schedules with the time advance of the phase it is leaving
Atomic_onIN_taOfOldPhase(s, self, msg) ==
  LET c == s.scn
      elapsed == msg.time - s.time_last[self]
      x == onExternal(c, self, s.phase[self], s.state[self], elapsed, msg.param)
      s1 == [s EXCEPT !.phase[self] = x.phase, !.state[self] = x.state,
                      !.elapsed[self] = x.elapsed]
      t == onTa(c, self, s.phase[self], s.state[self])
      s2 == IF x.accepted THEN updateTimes(s1, self, msg.time, Plus(msg.time, t.val))
            ELSE s1
  IN IF ~(s.time_last[self] <= msg.time /\ msg.time <= s.time_next[self])
     THEN Raise(Logged(s, self, msg, NoOutput, "raise"),
                <<"Exception", "In message requested at wrong time">>)
     ELSE IF x.raised THEN Raise(Logged(s, self, msg, NoOutput, "raise"), x.exc)
     ELSE IF x.accepted /\ t.raised
          THEN Raise(Logged(s1, self, msg, NoOutput, "raise"), t.exc)
     ELSE Logged(queue_msg(s2, getParent(c, self), DoneMsg(self, s2.time_next[self])),
                 self, msg, NoOutput, IF x.accepted THEN "accepted" ELSE "rejected")

\* onIN that updates the times whatever delta_ext returns
Atomic_onIN_alwaysUpdates(s, self, msg) ==
  LET c == s.scn
      elapsed == msg.time - s.time_last[self]
      x == onExternal(c, self, s.phase[self], s.state[self], elapsed, msg.param)
      s1 == [s EXCEPT !.phase[self] = x.phase, !.state[self] = x.state,
                      !.elapsed[self] = x.elapsed]
      t == onTa(c, self, s1.phase[self], s1.state[self])
      s2 == updateTimes(s1, self, msg.time, Plus(msg.time, t.val))
  IN IF ~(s.time_last[self] <= msg.time /\ msg.time <= s.time_next[self])
     THEN Raise(Logged(s, self, msg, NoOutput, "raise"),
                <<"Exception", "In message requested at wrong time">>)
     ELSE IF x.raised THEN Raise(Logged(s, self, msg, NoOutput, "raise"), x.exc)
     ELSE IF t.raised THEN Raise(Logged(s1, self, msg, NoOutput, "raise"), t.exc)
     ELSE Logged(queue_msg(s2, getParent(c, self), DoneMsg(self, s2.time_next[self])),
                 self, msg, NoOutput, IF x.accepted THEN "accepted" ELSE "rejected")

Atomic_onIN(s, self, msg) ==
  LET c == s.scn
      elapsed == msg.time - s.time_last[self]
      x == onExternal(c, self, s.phase[self], s.state[self], elapsed, msg.param)
      s1 == [s EXCEPT !.phase[self] = x.phase, !.state[self] = x.state,
                      !.elapsed[self] = x.elapsed]
      t == onTa(c, self, s1.phase[self], s1.state[self])
      s2 == IF x.accepted THEN updateTimes(s1, self, msg.time, Plus(msg.time, t.val))
            ELSE s1
  IN IF ~(s.time_last[self] <= msg.time /\ msg.time <= s.time_next[self])
     THEN Raise(Logged(s, self, msg, NoOutput, "raise"),
                <<"Exception", "In message requested at wrong time">>)
     ELSE IF x.raised THEN Raise(Logged(s, self, msg, NoOutput, "raise"), x.exc)
     ELSE IF x.accepted /\ t.raised
          THEN Raise(Logged(s1, self, msg, NoOutput, "raise"), t.exc)
     ELSE Logged(queue_msg(s2, getParent(c, self), DoneMsg(self, s2.time_next[self])),
                 self, msg, NoOutput, IF x.accepted THEN "accepted" ELSE "rejected")

Step_Atomic_onINIT(s) ==
  IF Dispatching(s, "atomic", T_INIT)
  THEN {Event(Atomic_onINIT(Taken(s), Top(s).sim, NextMsg(s)),
              "Atomic_onINIT", Top(s).sim, NextMsg(s), "")}
  ELSE {}

Step_Atomic_onSTAR(s) ==
  IF Dispatching(s, "atomic", T_STAR)
  THEN {Event(Atomic_onSTAR(Taken(s), Top(s).sim, NextMsg(s)),
              "Atomic_onSTAR", Top(s).sim, NextMsg(s), "")}
  ELSE {}

Step_Atomic_onIN(s) ==
  IF Dispatching(s, "atomic", T_IN)
  THEN {Event(Atomic_onIN(Taken(s), Top(s).sim, NextMsg(s)),
              "Atomic_onIN", Top(s).sim, NextMsg(s), "")}
  ELSE {}

---------------------------------------------------------------------------
(* ClassicDevsCoupledSimulator *)

\* trace_select: the decorator of select prints the decision with the root
\* coordinator registered by setTraceFuncs; root_coord is None without it
trace_select(s, specs, nameSet) ==
  LET res == select(specs, nameSet)
  IN IF s.traced THEN [raised |-> FALSE, exc |-> <<>>, val |-> res]
     ELSE [raised |-> TRUE, val |-> res,
           exc |-> <<"AttributeError", "'NoneType' object has no attribute 'getTimeLast'">>]

\* the children whose time_next is time, in the order of the children
findImminents(s, self, time) ==
  IF time # s.time_next[self] THEN <<>>
  ELSE SelectSeq(subModelsSpecs(s.scn)[self], LAMBDA x : s.time_next[x] = time)

\* one delivery of a handler's loop: the message is queued at the child, the
\* child is appended to active_children, the child is activated
Deliver(s, self, child, msg) ==
  LET s1 == queue_msg(s, child, msg)
      s2 == [s1 EXCEPT !.active_children[self] = Append(@, child),
                       !.stack[Len(s.stack)].dests = Tail(@)]
  IN Push(s2, ActivateFrame(child))

Coupled_onINIT(s, self, msg) ==
  Push(s, HandlerFrame(self, msg, subModelsSpecs(s.scn)[self]))

\* the winner of onSTAR: the only imminent child, or the child select names
\* a winner that falls back on the first imminent child when select names none
Coupled_winner_fallback(s, self, msg) ==
  LET imminents == findImminents(s, self, msg.time)
      this_set == Range(imminents)
      r == trace_select(s, getSelectSpecs(s.scn)[self], this_set)
  IN IF Len(imminents) = 1 THEN [raised |-> FALSE, exc |-> <<>>, val |-> imminents[1]]
     ELSE IF r.raised THEN r
     ELSE IF r.val \notin this_set /\ imminents # <<>>
          THEN [raised |-> FALSE, exc |-> <<>>, val |-> imminents[1]]
     ELSE IF r.val \notin this_set
          THEN [raised |-> TRUE, val |-> r.val,
                exc |-> <<"TypeError", "Select returned a winner that is not in the set of candidates!">>]
     ELSE r

Coupled_winner(s, self, msg) ==
  LET imminents == findImminents(s, self, msg.time)
      this_set == Range(imminents)
      r == trace_select(s, getSelectSpecs(s.scn)[self], this_set)
  IN IF Len(imminents) = 1 THEN [raised |-> FALSE, exc |-> <<>>, val |-> imminents[1]]
     ELSE IF r.raised THEN r
     ELSE IF r.val \notin this_set
          THEN [raised |-> TRUE, val |-> r.val,
                exc |-> <<"TypeError", "Select returned a winner that is not in the set of candidates!">>]
     ELSE r

Coupled_onSTAR(s, self, msg) ==
  LET w == Coupled_winner(s, self, msg)
  IN IF msg.time # s.time_next[self]
     THEN Raise(s, <<"Exception", "Star message requested at a time that is not reached yet!">>)
     ELSE IF w.raised THEN Raise(s, w.exc)
     ELSE Push(s, HandlerFrame(self, msg, <<w.val>>))

Coupled_onIN(s, self, msg) ==
  LET couplings == getCouplings(s.scn)[self]
  IN IF ~(s.time_last[self] <= msg.time /\ msg.time <= s.time_next[self])
     THEN Raise(s, <<"Exception", "In message requested at wrong time">>)
     ELSE IF "self" \notin DOMAIN couplings THEN Raise(s, <<"KeyError", "self">>)
     ELSE Push(s, HandlerFrame(self, msg, couplings["self"]))

Coupled_onOUT(s, self, msg) ==
  LET couplings == getCouplings(s.scn)[self]
  IN IF msg.param[1] = None THEN s
     ELSE IF msg.from \notin DOMAIN couplings THEN Raise(s, <<"KeyError", msg.from>>)
     ELSE Push(s, HandlerFrame(self, msg, couplings[msg.from]))

\* list.remove: the first occurrence
Remove(q, x) ==
  LET i == Min({k \in 1..Len(q) : q[k] = x})
  IN SubSeq(q, 1, i - 1) \o SubSeq(q, i + 1, Len(q))

RECURSIVE FoldTimes_latest(_, _, _, _)
\* a loop of onDONE that keeps the latest time_next of the children
FoldTimes_latest(s, self, children, i) ==
  IF i > Len(children) THEN s
  ELSE FoldTimes_latest(updateTimes(s, self,
                                    Max({s.time_last[self], s.time_last[children[i]]}),
                                    Max({s.time_next[self], s.time_next[children[i]]})),
                        self, children, i + 1)

RECURSIVE FoldTimes(_, _, _, _)
\* the loop of onDONE over children[1:], one updateTimes per child
FoldTimes(s, self, children, i) ==
  IF i > Len(children) THEN s
  ELSE FoldTimes(updateTimes(s, self,
                             Max({s.time_last[self], s.time_last[children[i]]}),
                             Min({s.time_next[self], s.time_next[children[i]]})),
                 self, children, i + 1)

\* onDONE that takes the times of the first child alone
Coupled_onDONE_firstChild(s, self, msg) ==
  LET active == Remove(s.active_children[self], msg.from)
      s1 == [s EXCEPT !.active_children[self] = active]
      children == subModelsSpecs(s.scn)[self]
      s2 == updateTimes(s1, self, s1.time_last[children[1]], s1.time_next[children[1]])
  IN IF msg.from \notin Range(s.active_children[self])
     THEN Raise(s, <<"ValueError", "list.remove(x): x not in list">>)
     ELSE IF Len(active) # 0 THEN Event(s1, "Coupled_onDONE", self, msg, "waiting")
     ELSE Event(queue_msg(s2, getParent(s.scn, self), DoneMsg(self, s2.time_next[self])),
                "Coupled_onDONE", self, msg, "emptied")

\* onDONE that takes the times of the child that reported last
Coupled_onDONE_lastChild(s, self, msg) ==
  LET active == Remove(s.active_children[self], msg.from)
      s1 == [s EXCEPT !.active_children[self] = active]
      s2 == updateTimes(s1, self, s1.time_last[msg.from], s1.time_next[msg.from])
  IN IF msg.from \notin Range(s.active_children[self])
     THEN Raise(s, <<"ValueError", "list.remove(x): x not in list">>)
     ELSE IF Len(active) # 0 THEN Event(s1, "Coupled_onDONE", self, msg, "waiting")
     ELSE Event(queue_msg(s2, getParent(s.scn, self), DoneMsg(self, s2.time_next[self])),
                "Coupled_onDONE", self, msg, "emptied")

Coupled_onDONE(s, self, msg) ==
  LET active == Remove(s.active_children[self], msg.from)
      s1 == [s EXCEPT !.active_children[self] = active]
      children == subModelsSpecs(s.scn)[self]
      s2 == FoldTimes(updateTimes(s1, self, s1.time_last[children[1]],
                                  s1.time_next[children[1]]),
                      self, children, 2)
  IN IF msg.from \notin Range(s.active_children[self])
     THEN Raise(s, <<"ValueError", "list.remove(x): x not in list">>)
     ELSE IF Len(active) # 0 THEN Event(s1, "Coupled_onDONE", self, msg, "waiting")
     ELSE IF Len(children) > 1 /\ \E x \in Range(children) : s1.time_last[x] = NoTime
          THEN Raise(s1, <<"TypeError">>)
     ELSE Event(queue_msg(s2, getParent(s.scn, self), DoneMsg(self, s2.time_next[self])),
                "Coupled_onDONE", self, msg, "emptied")

\* a handler that loops over children: its call, each delivery, its return
HandlerSteps(s, type, op, entered) ==
  IF Dispatching(s, "coupled", type)
  THEN {IF Running(entered) /\ Len(entered.stack) > Len(s.stack)
        THEN Event(entered, op, Top(s).sim, NextMsg(s), "call")
        ELSE Event(entered, op, Top(s).sim, NextMsg(s),
                   IF Running(entered) THEN "ignored" ELSE "raise")}
  ELSE IF Looping(s, type) /\ SimKind(s, Top(s).sim) = "coupled"
  THEN LET fr == Top(s)
       IN IF fr.dests = <<>> THEN {Event(Pop(s), op, fr.sim, fr.msg, "return")}
          ELSE LET d == Head(fr.dests)
               IN {Event(
                    CASE type = T_INIT -> Deliver(s, fr.sim, d, InitMsg(fr.sim, fr.msg.time))
                      [] type = T_STAR -> Deliver(s, fr.sim, d, StarMsg(fr.sim, fr.msg.time))
                      [] type = T_IN ->
                           Deliver(s, fr.sim, d, InMsg(fr.sim, fr.msg.time, fr.msg.param))
                      [] type = T_OUT ->
                           IF d = "self"
                           THEN [queue_msg(s, getParent(s.scn, fr.sim),
                                           OutMsg(fr.sim, fr.msg.time, fr.msg.param))
                                   EXCEPT !.stack[Len(s.stack)].dests = Tail(@)]
                           ELSE Deliver(s, fr.sim, d,
                                        InMsg(fr.msg.from, fr.msg.time, fr.msg.param)),
                    op, fr.sim, fr.msg, d)}
  ELSE {}

Step_Coupled_onINIT(s) ==
  HandlerSteps(s, T_INIT, "Coupled_onINIT",
               IF Dispatching(s, "coupled", T_INIT)
               THEN Coupled_onINIT(Taken(s), Top(s).sim, NextMsg(s)) ELSE s)

\* onSTAR that forwards STAR to any one of the imminent children
Step_Coupled_onSTAR_anyImminent(s) ==
  IF Dispatching(s, "coupled", T_STAR)
  THEN LET self == Top(s).sim
           msg == NextMsg(s)
       IN IF msg.time # s.time_next[self] \/ findImminents(s, self, msg.time) = <<>>
          THEN HandlerSteps(s, T_STAR, "Coupled_onSTAR",
                            Coupled_onSTAR(Taken(s), self, msg))
          ELSE {Event(Push(Taken(s), HandlerFrame(self, msg, <<w>>)),
                      "Coupled_onSTAR", self, msg, "call") :
                  w \in Range(findImminents(s, self, msg.time))}
  ELSE HandlerSteps(s, T_STAR, "Coupled_onSTAR", s)

Step_Coupled_onSTAR(s) ==
  HandlerSteps(s, T_STAR, "Coupled_onSTAR",
               IF Dispatching(s, "coupled", T_STAR)
               THEN Coupled_onSTAR(Taken(s), Top(s).sim, NextMsg(s)) ELSE s)

Step_Coupled_onIN(s) ==
  HandlerSteps(s, T_IN, "Coupled_onIN",
               IF Dispatching(s, "coupled", T_IN)
               THEN Coupled_onIN(Taken(s), Top(s).sim, NextMsg(s)) ELSE s)

Step_Coupled_onOUT(s) ==
  HandlerSteps(s, T_OUT, "Coupled_onOUT",
               IF Dispatching(s, "coupled", T_OUT)
               THEN Coupled_onOUT(Taken(s), Top(s).sim, NextMsg(s)) ELSE s)

Step_Coupled_onDONE(s) ==
  IF Dispatching(s, "coupled", T_DONE)
  THEN {Coupled_onDONE(Taken(s), Top(s).sim, NextMsg(s))}
  ELSE {}

---------------------------------------------------------------------------
(* ClassicDevsRootCoordinator *)

\* an onDONE that leaves the STAR queued for the next activation of the simulator
Root_onDONE_deferred(s, msg) ==
  LET sim == RootModel(s.scn)
      s1 == updateTimes(s, RootCoord, s.time_next[RootCoord], msg.time)
  IN queue_msg(s1, sim, StarMsg(RootCoord, msg.time))

\* onDONE: the times are shifted, STAR is queued at the root simulator, which
\* is activated
Root_onDONE(s, msg) ==
  LET sim == RootModel(s.scn)
      s1 == updateTimes(s, RootCoord, s.time_next[RootCoord], msg.time)
  IN Push(queue_msg(s1, sim, StarMsg(RootCoord, msg.time)), ActivateFrame(sim))

\* onOUT: print("Root: output=...")
Root_onOUT(s, msg) ==
  IF Len(s.printed) >= MaxLog THEN s
  ELSE [s EXCEPT !.printed = Append(@, [time |-> msg.time, param |-> msg.param])]

Step_Root_onDONE(s) ==
  IF Dispatching(s, "root", T_DONE)
  THEN {Event(Root_onDONE(Taken(s), NextMsg(s)), "Root_onDONE", RootCoord, NextMsg(s), "")}
  ELSE {}

Step_Root_onOUT(s) ==
  IF Dispatching(s, "root", T_OUT)
  THEN {Event(Root_onOUT(Taken(s), NextMsg(s)), "Root_onOUT", RootCoord, NextMsg(s), "")}
  ELSE {}

\* start() whose loop tests time_next in place of time_last
start_testsTimeNext(s) ==
  LET sim == RootModel(s.scn)
  IN CASE s.pc = "start" ->
            [Push(queue_msg(s, sim, InitMsg(RootCoord, RootTimeNext)), ActivateFrame(sim))
               EXCEPT !.pc = "while"]
       [] s.pc = "while" ->
            IF s.time_next[RootCoord] >= s.scn.e THEN [s EXCEPT !.pc = "done"]
            ELSE [Push(s, ActivateFrame(sim)) EXCEPT !.pc = "self"]
       [] s.pc = "self" -> [Push(s, ActivateFrame(RootCoord)) EXCEPT !.pc = "while"]

\* start() that activates the root coordinator once more when its loop ends
\* with messages left in the root's mailbox
start_drainsMailbox(s) ==
  LET sim == RootModel(s.scn)
      left == \E k \in 0..(MSG_COUNT - 1) : s.msg_queue[RootCoord][k] # <<>>
  IN CASE s.pc = "start" ->
            [Push(queue_msg(s, sim, InitMsg(RootCoord, RootTimeNext)), ActivateFrame(sim))
               EXCEPT !.pc = "while"]
       [] s.pc = "while" ->
            IF s.time_last[RootCoord] >= s.scn.e
            THEN IF left THEN [Push(s, ActivateFrame(RootCoord)) EXCEPT !.pc = "drained"]
                 ELSE [s EXCEPT !.pc = "done"]
            ELSE [Push(s, ActivateFrame(sim)) EXCEPT !.pc = "self"]
       [] s.pc = "self" -> [Push(s, ActivateFrame(RootCoord)) EXCEPT !.pc = "while"]
       [] s.pc = "drained" -> [s EXCEPT !.pc = "done"]

\* start() whose loop also ends when the next event of the root simulator,
\* the time of the DONE waiting in the mailbox, is not before the end time
start_peeksNextEvent(s) ==
  LET sim == RootModel(s.scn)
      dones == s.msg_queue[RootCoord][T_DONE]
  IN CASE s.pc = "start" ->
            [Push(queue_msg(s, sim, InitMsg(RootCoord, RootTimeNext)), ActivateFrame(sim))
               EXCEPT !.pc = "while"]
       [] s.pc = "while" ->
            IF \/ s.time_last[RootCoord] >= s.scn.e
               \/ \E i \in 1..Len(dones) : dones[i].time >= s.scn.e
            THEN [s EXCEPT !.pc = "done"]
            ELSE [Push(s, ActivateFrame(sim)) EXCEPT !.pc = "self"]
       [] s.pc = "self" -> [Push(s, ActivateFrame(RootCoord)) EXCEPT !.pc = "while"]

\* start(): INIT to the root simulator, then the while loop; each call of
\* activate() made by start is one step, taken when the previous call returned
start(s) ==
  LET sim == RootModel(s.scn)
  IN CASE s.pc = "start" ->
            [Push(queue_msg(s, sim, InitMsg(RootCoord, RootTimeNext)), ActivateFrame(sim))
               EXCEPT !.pc = "while"]
       [] s.pc = "while" ->
            IF s.time_last[RootCoord] >= s.scn.e THEN [s EXCEPT !.pc = "done"]
            ELSE [Push(s, ActivateFrame(sim)) EXCEPT !.pc = "self"]
       [] s.pc = "self" -> [Push(s, ActivateFrame(RootCoord)) EXCEPT !.pc = "while"]

Step_start(s) ==
  IF Running(s) /\ s.stack = <<>>
  THEN {Event(start(s), "start", RootCoord, NoMsg, s.pc)}
  ELSE {}

\* every step the run can take from s
Succ(s) ==
  Step_start(s) \cup Step_activate(s)
    \cup Step_Atomic_onINIT(s) \cup Step_Atomic_onSTAR(s) \cup Step_Atomic_onIN(s)
    \cup Step_Coupled_onINIT(s) \cup Step_Coupled_onSTAR(s) \cup Step_Coupled_onIN(s)
    \cup Step_Coupled_onOUT(s) \cup Step_Coupled_onDONE(s)
    \cup Step_Root_onDONE(s) \cup Step_Root_onOUT(s)

---------------------------------------------------------------------------
(* The run as a state machine *)

NoCall == [specs |-> <<>>, nameSet |-> {}, result |-> "", pc |-> "idle"]
NoBuild ==
  [model_specs |-> <<>>, coupling_specs |-> <<>>, sub_models |-> <<>>,
   couplings |-> <<>>, expanded |-> <<>>, err |-> <<>>, pc |-> "idle"]

Init ==
  /\ st \in {InitState(c, traced) : c \in Scenarios, traced \in BOOLEAN}
  /\ tw = st
  /\ sel = NoCall
  /\ bld = NoBuild

Start == st' \in Step_start(st) /\ UNCHANGED <<tw, sel, bld>>
Activate == st' \in Step_activate(st) /\ UNCHANGED <<tw, sel, bld>>
AtomicSimulator_onINIT == st' \in Step_Atomic_onINIT(st) /\ UNCHANGED <<tw, sel, bld>>
AtomicSimulator_onSTAR == st' \in Step_Atomic_onSTAR(st) /\ UNCHANGED <<tw, sel, bld>>
AtomicSimulator_onIN == st' \in Step_Atomic_onIN(st) /\ UNCHANGED <<tw, sel, bld>>
CoupledSimulator_onINIT == st' \in Step_Coupled_onINIT(st) /\ UNCHANGED <<tw, sel, bld>>
CoupledSimulator_onSTAR == st' \in Step_Coupled_onSTAR(st) /\ UNCHANGED <<tw, sel, bld>>
CoupledSimulator_onIN == st' \in Step_Coupled_onIN(st) /\ UNCHANGED <<tw, sel, bld>>
CoupledSimulator_onOUT == st' \in Step_Coupled_onOUT(st) /\ UNCHANGED <<tw, sel, bld>>
CoupledSimulator_onDONE == st' \in Step_Coupled_onDONE(st) /\ UNCHANGED <<tw, sel, bld>>
RootCoordinator_onDONE == st' \in Step_Root_onDONE(st) /\ UNCHANGED <<tw, sel, bld>>
RootCoordinator_onOUT == st' \in Step_Root_onOUT(st) /\ UNCHANGED <<tw, sel, bld>>

Next ==
  \/ Start
  \/ Activate
  \/ AtomicSimulator_onINIT
  \/ AtomicSimulator_onSTAR
  \/ AtomicSimulator_onIN
  \/ CoupledSimulator_onINIT
  \/ CoupledSimulator_onSTAR
  \/ CoupledSimulator_onIN
  \/ CoupledSimulator_onOUT
  \/ CoupledSimulator_onDONE
  \/ RootCoordinator_onDONE
  \/ RootCoordinator_onOUT

Spec == Init /\ [][Next]_vars

\* the interpreter runs the program on: a step that can be taken is taken
FairSpec == Spec /\ WF_vars(Next)

---------------------------------------------------------------------------
(* A simulator driven directly.  Whoever holds a simulator can stand where  *)
(* its parent stands: it queues a message for the simulator and activates   *)
(* it, as the root coordinator does with its simulator.  This driver sends  *)
(* INIT(0), then STAR and IN messages at times of its choice, and stops     *)
(* after MaxDirect acknowledgements.                                        *)

MaxDirect == 4
MaxDirectTime == 4

\* a processor alone, the coupled models of scen.py and procgen.py, each
\* constructed with the driver as parent
DirectInit ==
  /\ st \in {[InitState(c, TRUE) EXCEPT !.pc = "direct"] :
               c \in {[model |-> m, p |-> 0, q |-> q, e |-> 0] :
                        m \in {"Processor", "Sub"}, q \in 1..2}
                     \cup {[model |-> "Nested", p |-> 3, q |-> 2, e |-> 0],
                           [model |-> "CoupledGenerator", p |-> 3, q |-> 4, e |-> 0]}}
  /\ tw = st
  /\ sel = NoCall
  /\ bld = NoBuild

\* simulator.queue_msg(msg); simulator.activate()
Direct ==
  /\ st.pc = "direct" /\ st.stack = <<>>
  /\ Len(st.msg_queue[RootCoord][T_DONE]) < MaxDirect
  /\ \E msg \in IF st.msg_queue[RootCoord][T_DONE] = <<>>
                 THEN {InitMsg(RootCoord, RootTimeNext)}
                 ELSE UNION {{StarMsg(RootCoord, t),
                              InMsg(RootCoord, t, <<"job", <<"direct">>>>)} :
                               t \in 0..MaxDirectTime} :
        st' = Event(Push(queue_msg(st, RootModel(st.scn), msg),
                         ActivateFrame(RootModel(st.scn))),
                    "direct", RootCoord, msg, "")
  /\ UNCHANGED <<tw, sel, bld>>

DirectNext ==
  \/ Direct
  \/ Activate
  \/ AtomicSimulator_onINIT
  \/ AtomicSimulator_onSTAR
  \/ AtomicSimulator_onIN
  \/ CoupledSimulator_onINIT
  \/ CoupledSimulator_onSTAR
  \/ CoupledSimulator_onIN
  \/ CoupledSimulator_onOUT
  \/ CoupledSimulator_onDONE

SpecDirect == DirectInit /\ [][DirectNext]_vars

---------------------------------------------------------------------------
(* Two runs of the same model tree and end time, side by side: each takes *)
(* its next step, a run that has ended waits for the other.              *)

TwinInit ==
  /\ st \in {InitState(c, traced) : c \in Scenarios, traced \in BOOLEAN}
  /\ tw \in {InitState(st.scn, traced) : traced \in BOOLEAN}
  /\ sel = NoCall
  /\ bld = NoBuild

BothRun == st' \in Succ(st) /\ tw' \in Succ(tw) /\ UNCHANGED <<sel, bld>>
FirstRuns == Succ(tw) = {} /\ st' \in Succ(st) /\ UNCHANGED <<tw, sel, bld>>
SecondRuns == Succ(st) = {} /\ tw' \in Succ(tw) /\ UNCHANGED <<st, sel, bld>>

TwinNext ==
  \/ BothRun
  \/ FirstRuns
  \/ SecondRuns

SpecTwin == TwinInit /\ [][TwinNext]_vars

---------------------------------------------------------------------------
(* Calls of select with spec lists and name sets drawn from small sets *)

\* longest list of select specs
MaxSpecs == 2
\* largest set of patterns of one select spec
MaxPatterns == 2

SelectPatterns == {"proc", "gen", "proc.*", ".*"}
SelectNames == {"proc", "gen", "proc:0"}
SelectSpecPairs ==
  {<<P, w>> : P \in {S \in SUBSET SelectPatterns : Cardinality(S) <= MaxPatterns},
              w \in {"proc", "gen"}}
SelectSpecLists == UNION {[1..n -> SelectSpecPairs] : n \in 0..MaxSpecs}

\* the spec sets the documentation of selectSpecs explains, with the name
\* sets it applies them to
DocumentedSpecLists ==
  {<< <<{"proc.*", ".*"}, "proc:0">> >>, << <<{"proc:0", ".*"}, "proc:0">> >>}
DocumentedNames == {"proc:0", "proc:1", "gen"}

SelectInit ==
  /\ st = InitState(Example, TRUE)
  /\ tw = st
  /\ bld = NoBuild
  /\ sel \in {[specs |-> sp, nameSet |-> ns, result |-> "", pc |-> "call"] :
                sp \in SelectSpecLists, ns \in SUBSET SelectNames}
             \cup {[specs |-> sp, nameSet |-> ns, result |-> "", pc |-> "call"] :
                     sp \in DocumentedSpecLists, ns \in SUBSET DocumentedNames}

CallSelect ==
  /\ sel.pc = "call"
  /\ sel' = [sel EXCEPT !.result = select(sel.specs, sel.nameSet), !.pc = "returned"]
  /\ UNCHANGED <<st, tw, bld>>

SelectNext == CallSelect

SpecSelect == SelectInit /\ [][SelectNext]_vars

---------------------------------------------------------------------------
(* ClassicDevsCoupledModel.build: the submodels and the routing table.  Names *)
(* and coupling specs are strings, kept as sequences of characters so that   *)
(* the regular expressions and the comparisons of the code apply to them.    *)

DigitChars == <<"0", "1", "2", "3", "4", "5", "6", "7", "8", "9">>
\* the characters \w matches
WordChars ==
  Range(DigitChars) \cup
    {"_", "a", "b", "c", "d", "e", "f", "g", "h", "i", "j", "k", "l", "m",
     "n", "o", "p", "q", "r", "s", "t", "u", "v", "w", "x", "y", "z"}
\* a group of a regular expression that took no part in the match
NoGroup == <<>>
Self == <<"s", "e", "l", "f">>

RECURSIVE Str(_)
\* str(i) of a non-negative integer
Str(i) == IF i < 10 THEN <<DigitChars[i + 1]>>
          ELSE Str(i \div 10) \o <<DigitChars[(i % 10) + 1]>>

RECURSIVE StrLess(_, _)
\* a < b of two strings of digits: character by character, a proper prefix first
StrLess(a, b) ==
  IF b = <<>> THEN FALSE
  ELSE IF a = <<>> THEN TRUE
  ELSE IF a[1] = b[1] THEN StrLess(Tail(a), Tail(b))
  ELSE (CHOOSE i \in 1..10 : DigitChars[i] = a[1]) < (CHOOSE i \in 1..10 : DigitChars[i] = b[1])

RECURSIVE Span(_, _)
\* the length of the longest prefix of str made of characters of chars
Span(str, chars) ==
  IF str # <<>> /\ str[1] \in chars THEN 1 + Span(Tail(str), chars) ELSE 0

\* (:\d+)? at position i of str: the number of characters it takes
ColonNumber(str, i) ==
  LET digits == Span(SubSeq(str, i + 1, Len(str)), Range(DigitChars))
  IN IF i <= Len(str) /\ str[i] = ":" /\ digits > 0 THEN 1 + digits ELSE 0

RECURSIVE createSubModels(_, _, _)
\* __createSubModels / __createModel: the names in creation order, mname or
\* mname:0 .. mname:(count-1) for count > 1; a name created twice is an error
createSubModels(model_specs, i, names) ==
  IF i > Len(model_specs) THEN [raised |-> FALSE, exc |-> <<>>, names |-> names]
  ELSE LET mname == model_specs[i].name
           count == model_specs[i].count
           new == IF count > 1 THEN [k \in 1..count |-> mname \o <<":">> \o Str(k - 1)]
                  ELSE <<mname>>
           clash == {k \in 1..Len(new) : new[k] \in Range(names)}
       IN IF clash # {}
          THEN [raised |-> TRUE, exc |-> <<"Exception", "A model named %s exist already!">>,
                names |-> names \o SubSeq(new, 1, Min(clash) - 1)]
          ELSE createSubModels(model_specs, i + 1, names \o new)

\* __decodeRangeSpec: ^(?P<name>\w+(:\d+)?)(\[(?P<first>\d+):(?P<last>\d+)])?$
\* n, f and l are the lengths of the groups name, first and last; raising
\* refers to self.__name, which a coupled model does not have
decodeRangeSpec(spec) ==
  LET w == Span(spec, WordChars)
      n == w + ColonNumber(spec, w + 1)
      f == Span(SubSeq(spec, n + 2, Len(spec)), Range(DigitChars))
      l == Span(SubSeq(spec, n + f + 3, Len(spec)), Range(DigitChars))
      bracket == SubSeq(spec, n + 1, n + 1) \o SubSeq(spec, n + f + 2, n + f + 2)
                   \o SubSeq(spec, n + f + l + 3, Len(spec))
  IN IF w > 0 /\ n = Len(spec)
     THEN [raised |-> FALSE, exc |-> <<>>, name |-> spec, first |-> NoGroup, last |-> NoGroup]
     ELSE IF w > 0 /\ f > 0 /\ l > 0 /\ bracket = <<"[", ":", "]">>
     THEN [raised |-> FALSE, exc |-> <<>>, name |-> SubSeq(spec, 1, n),
           first |-> SubSeq(spec, n + 2, n + f + 1),
           last |-> SubSeq(spec, n + f + 3, n + f + l + 2)]
     ELSE [raised |-> TRUE, exc |-> <<"AttributeError", "__name">>,
           name |-> NoGroup, first |-> NoGroup, last |-> NoGroup]

\* the test of __findMatchingNumberedModels on one submodel name, split by
\* ^(?P<base>\w+)(:(?P<num>\d+))? ; first <= num < last compares strings
Keeps(mname, name, first, last) ==
  LET w == Span(mname, WordChars)
      c == ColonNumber(mname, w + 1)
      base == SubSeq(mname, 1, w)
      num == IF c > 0 THEN SubSeq(mname, w + 2, w + c) ELSE NoGroup
  IN IF first # NoGroup /\ last # NoGroup /\ num # NoGroup /\ base = name
     THEN ~StrLess(num, first) /\ StrLess(num, last)
     ELSE first = NoGroup /\ name = mname

\* __findMatchingNumberedModels
findMatchingNumberedModels(sub_models, name, first, last) ==
  IF name = Self THEN <<Self>>
  ELSE SelectSeq(sub_models, LAMBDA mname : Keeps(mname, name, first, last))

\* a __createCoupling that appends dst without looking at the destinations
\* already there
createCoupling_always(couplings, src, dst) ==
  LET previous == IF src \in DOMAIN couplings THEN couplings[src] ELSE <<>>
  IN [k \in DOMAIN couplings \cup {src} |->
        IF k = src THEN Append(previous, dst) ELSE couplings[k]]

\* __createCoupling: dst is appended to the destinations of src if not there
createCoupling(couplings, src, dst) ==
  LET previous == IF src \in DOMAIN couplings THEN couplings[src] ELSE <<>>
      now == IF dst \in Range(previous) THEN previous ELSE Append(previous, dst)
  IN [k \in DOMAIN couplings \cup {src} |-> IF k = src THEN now ELSE couplings[k]]

RECURSIVE PairAll(_, _, _, _, _)
\* the two nested loops pairing every source match with every destination match
PairAll(couplings, src_matches, dst_matches, i, j) ==
  IF i > Len(src_matches) THEN couplings
  ELSE IF j > Len(dst_matches) THEN PairAll(couplings, src_matches, dst_matches, i + 1, 1)
  ELSE PairAll(createCoupling(couplings, src_matches[i], dst_matches[j]),
               src_matches, dst_matches, i, j + 1)

\* a decoded coupling spec matched against the submodels
Matched(sub_models, d) ==
  IF d.raised THEN [raised |-> TRUE, exc |-> d.exc, matches |-> <<>>]
  ELSE [raised |-> FALSE, exc |-> <<>>,
        matches |-> findMatchingNumberedModels(sub_models, d.name, d.first, d.last)]
\* __decodeRangeSpec then __findMatchingNumberedModels
Expand(sub_models, spec) == Matched(sub_models, decodeRangeSpec(spec))

RECURSIVE createCouplingsDsts(_, _, _, _, _)
\* one destination, expanded to e, paired with every match of the source; an
\* exception leaves the loops with the table as it is
createCouplingsDst(sub_models, src_matches, dsts, j, acc, e) ==
  IF e.raised THEN [acc EXCEPT !.raised = TRUE, !.exc = e.exc]
  ELSE createCouplingsDsts(sub_models, src_matches, dsts, j + 1,
         [acc EXCEPT !.couplings = PairAll(@, src_matches, e.matches, 1, 1),
                     !.expanded = Append(@, [spec |-> dsts[j], matches |-> e.matches])])
\* the loop over the destinations of one coupling; acc is the table built so
\* far and the expansions made so far
createCouplingsDsts(sub_models, src_matches, dsts, j, acc) ==
  IF j > Len(dsts) THEN acc
  ELSE createCouplingsDst(sub_models, src_matches, dsts, j, acc, Expand(sub_models, dsts[j]))

RECURSIVE createCouplings(_, _, _, _)
\* after the destinations of coupling i: the next coupling, unless one raised
createCouplingsNext(sub_models, coupling_specs, i, after) ==
  IF after.raised THEN after ELSE createCouplings(sub_models, coupling_specs, i + 1, after)
\* one coupling, its source expanded to e
createCouplingsSrc(sub_models, coupling_specs, i, acc, e) ==
  IF e.raised THEN [acc EXCEPT !.raised = TRUE, !.exc = e.exc]
  ELSE createCouplingsNext(sub_models, coupling_specs, i,
         createCouplingsDsts(sub_models, e.matches, coupling_specs[i][2], 1,
           [acc EXCEPT !.expanded =
              Append(@, [spec |-> coupling_specs[i][1], matches |-> e.matches])]))
\* __createCouplings: the loop over the coupling specs
createCouplings(sub_models, coupling_specs, i, acc) ==
  IF i > Len(coupling_specs) THEN acc
  ELSE createCouplingsSrc(sub_models, coupling_specs, i, acc,
                          Expand(sub_models, coupling_specs[i][1]))

\* build after __createCouplings
buildCoupled(b, done) ==
  [b EXCEPT !.couplings = done.couplings, !.expanded = done.expanded, !.err = done.exc,
            !.pc = IF done.raised THEN "raised" ELSE "built"]
\* build after __createSubModels
buildModels(b, made) ==
  IF made.raised THEN [b EXCEPT !.sub_models = made.names, !.err = made.exc, !.pc = "raised"]
  ELSE buildCoupled([b EXCEPT !.sub_models = made.names],
                    createCouplings(made.names, b.coupling_specs, 1,
                      [raised |-> FALSE, exc |-> <<>>, couplings |-> <<>>, expanded |-> <<>>]))
\* ClassicDevsCoupledModel.build: the submodels, then the couplings
build(b) == buildModels(b, createSubModels(b.model_specs, 1, <<>>))

\* the largest replica count, the longest destination tuple and the longest
\* list of couplings of the models built
MaxCount == 12
MaxDsts == 2
MaxCouplings == 2

Gen == Spell["gen"]
Proc == Spell["proc"]
Numbered(base, k) == base \o <<":">> \o Str(k)
RangeSpec(base, a, b) == base \o <<"[">> \o Str(a) \o <<":">> \o Str(b) \o <<"]">>
\* proc:0 .. proc:(MaxCount-1), proc, gen:0 .. gen:(MaxCount-1)
ManyModels ==
  <<[name |-> Proc, count |-> MaxCount], [name |-> Proc, count |-> 1],
    [name |-> Gen, count |-> MaxCount]>>
\* gen:0 .. gen:3, proc:0, proc:1, proc
FewModels ==
  <<[name |-> Gen, count |-> 4], [name |-> Proc, count |-> 2], [name |-> Proc, count |-> 1]>>

NameSpecs == {Gen, Proc, Self, Numbered(Proc, 3), Numbered(Proc, MaxCount)}
FewSpecs == {RangeSpec(Gen, 2, 4), RangeSpec(Proc, 0, 2), RangeSpec(Gen, 3, 4), Proc, Gen, Self}
PairSpecs == {RangeSpec(Gen, 2, 4), RangeSpec(Proc, 0, 2), Proc, Self}

TuplesUpTo(S, n) == UNION {[1..k -> S] : k \in 1..n}

BuildCalls ==
  \* one coupling whose source or destination is a range or a name
  {[model_specs |-> ManyModels,
    coupling_specs |-> << IF asSource THEN <<spec, <<Self>> >> ELSE <<Self, <<spec>> >> >>] :
      spec \in NameSpecs \cup {RangeSpec(base, a, b) : base \in {Gen, Proc},
                                                       a \in 0..MaxCount, b \in 0..MaxCount},
      asSource \in BOOLEAN}
  \* one coupling with several destinations
  \cup {[model_specs |-> FewModels, coupling_specs |-> << <<src, dsts>> >>] :
      src \in FewSpecs, dsts \in TuplesUpTo(FewSpecs, MaxDsts)}
  \* several couplings
  \cup {[model_specs |-> FewModels, coupling_specs |-> cs] :
      cs \in TuplesUpTo({<<src, <<dst>> >> : src \in PairSpecs, dst \in PairSpecs}, MaxCouplings)}
  \* a spec the regular expression of __decodeRangeSpec rejects as source and
  \* as destination, and a submodel name declared twice
  \cup {[model_specs |-> FewModels,
         coupling_specs |-> << <<Gen \o <<"[", "2", ":">>, <<Proc>> >> >>],
        [model_specs |-> FewModels,
         coupling_specs |-> << <<Proc, <<Self, Gen \o <<"[", "2", ":">> >> >> >>],
        [model_specs |-> <<[name |-> Proc, count |-> 1], [name |-> Gen, count |-> 2],
                           [name |-> Proc, count |-> 1]>>,
         coupling_specs |-> << <<Proc, <<Self>> >> >>]}

BuildInit ==
  /\ st = InitState(Example, TRUE)
  /\ tw = st
  /\ sel = NoCall
  /\ bld \in {[NoBuild EXCEPT !.model_specs = c.model_specs,
                              !.coupling_specs = c.coupling_specs, !.pc = "call"] :
                c \in BuildCalls}

Build == bld.pc = "call" /\ bld' = build(bld) /\ UNCHANGED <<st, tw, sel>>

SpecBuild == BuildInit /\ [][Build]_vars

---------------------------------------------------------------------------
(* Properties *)

\* C1: every simulator one of whose activations has returned has its
\* time_last and time_next set, with time_last <= time_next
C1_TimeLastAtMostTimeNext ==
  \A x \in st.returned :
    /\ st.time_last[x] # NoTime
    /\ st.time_next[x] # NoTime
    /\ st.time_last[x] <= st.time_next[x]

\* in every model tree whose coupled models all have submodels, the times of a
\* simulator whose activation has returned are set and ordered
TimesOrderedUnlessEmpty ==
  st.scn.model # "EmptyCoupled" => C1_TimeLastAtMostTimeNext

\* C2: when onDONE of a coupled simulator empties active_children, the
\* simulator's time_next is the minimum of the time_next of all its children,
\* its time_last the maximum of their time_last, and the DONE message it has
\* just queued at its parent carries that time_next
C2_DoneFoldsAllChildren ==
  (st.ev.op = "Coupled_onDONE" /\ st.ev.note = "emptied") =>
    LET self == st.ev.sim
        children == Range(subModelsSpecs(st.scn)[self])
        dones == st.msg_queue[getParent(st.scn, self)][T_DONE]
    IN /\ st.active_children[self] = <<>>
       /\ st.time_next[self] = Min({st.time_next[x] : x \in children})
       /\ st.time_last[self] = Max({st.time_last[x] : x \in children})
       /\ dones # <<>>
       /\ dones[Len(dones)] = DoneMsg(self, st.time_next[self])

\* a coupled simulator takes its time_next from a child other than the one
\* whose DONE emptied active_children, and its time_last from yet another time
C2_Witness ==
  /\ st.ev.op = "Coupled_onDONE" /\ st.ev.note = "emptied"
  /\ st.time_next[st.ev.sim] # st.time_next[st.ev.msg.from]
  /\ st.time_last[st.ev.sim] < st.time_next[st.ev.sim]
  /\ \E x \in Range(subModelsSpecs(st.scn)[st.ev.sim]) :
        st.time_last[x] < st.time_last[st.ev.sim]

\* start() of the documented run has returned
ExampleDone == st.scn = Example /\ st.pc = "done"

\* C3 as stated: in the documented run the root coordinator's time_last is 10
\* when start returns
C3_FinalTimeLastIsEndTime == ExampleDone => st.time_last[RootCoord] = 10

\* C3: in the documented run (Generator 3, Processor 4, end time 10) the root
\* coordinator's time_last is 12 when start returns
C3_FinalTimeLastIs12 == ExampleDone => st.time_last[RootCoord] = 12

C3_Witness ==
  /\ ExampleDone
  /\ st.time_last[RootCoord] >= st.scn.e
  /\ st.time_next[RootCoord] = 13

\* C4: in the documented run exactly one output has been reported by the
\* root's onOUT when start returns: the job the processor completed at time 7
C4_OneOutputAtRoot ==
  ExampleDone =>
    st.printed = <<[time |-> 7, param |-> <<"job", getPath(Example, "gen")>>]>>

C4_Witness ==
  /\ ExampleDone
  /\ Len(st.printed) = 1
  /\ st.msg_queue[RootCoord][T_OUT] # <<>>

\* the events of the atomic simulators, in the order they were executed: an
\* output sent (simulator, "emits", time) and an input handled (simulator,
\* outcome, time, phase, time_last, time_next after the handler)
Executed(log) ==
  LET picked == SelectSeq(log, LAMBDA e : e.type = T_IN \/ e.out # NoOutput)
  IN [i \in 1..Len(picked) |->
        IF picked[i].type = T_IN
        THEN <<picked[i].sim, picked[i].note, picked[i].time,
               picked[i].phase, picked[i].time_last, picked[i].time_next>>
        ELSE <<picked[i].sim, "emits", picked[i].time>>]

\* C5 as stated: the generator emits at 3, 6 and 9 only; the processor
\* accepts at 3, rejects at 6, emits at 7, accepts at 9 with completion at 11
C5_EventsAsDocumented ==
  ExampleDone =>
    Executed(st.log) =
      << <<"gen", "emits", 3>>, <<"proc", "accepted", 3, "busy", 3, 7>>,
         <<"gen", "emits", 6>>, <<"proc", "rejected", 6, "busy", 3, 7>>,
         <<"proc", "emits", 7>>,
         <<"gen", "emits", 9>>, <<"proc", "accepted", 9, "busy", 9, 11>> >>

\* C5: in the documented run the generator emits at 3, 6, 9 and 12; the
\* processor accepts at 3, rejects at 6 (phase busy, time_last 3 and
\* time_next 7 unchanged), emits at 7, accepts at 9 with completion at 13,
\* rejects at 12 and emits at 13
C5_EventsExecuted ==
  ExampleDone =>
    Executed(st.log) =
      << <<"gen", "emits", 3>>, <<"proc", "accepted", 3, "busy", 3, 7>>,
         <<"gen", "emits", 6>>, <<"proc", "rejected", 6, "busy", 3, 7>>,
         <<"proc", "emits", 7>>,
         <<"gen", "emits", 9>>, <<"proc", "accepted", 9, "busy", 9, 13>>,
         <<"gen", "emits", 12>>, <<"proc", "rejected", 12, "busy", 9, 13>>,
         <<"proc", "emits", 13>> >>

C5_Witness ==
  /\ ExampleDone
  /\ Len(st.log) < MaxLog
  /\ st.state["proc"].missed = 2
  /\ \E i \in 1..Len(st.log) : st.log[i].sim = "proc" /\ st.log[i].note = "rejected"

\* C6: start() eventually returns or aborts with an error
C6_StartTerminates == <>(st.pc \in {"done", "error"})

\* C7: a run without trace sink and a run with one, of the same model tree and
\* end time, are at every step equally far, with the same transitions
\* executed, the same outputs at the root and the same time_last of the root
C7_SameRunWithoutTraceSink ==
  /\ st.pc = tw.pc
  /\ st.err = tw.err
  /\ st.log = tw.log
  /\ st.printed = tw.printed
  /\ st.time_last[RootCoord] = tw.time_last[RootCoord]

DispatchedExist(s, t) ==
  LET a == Top(s).sim
      class == ModelClass(s.scn, a)
      type == NextMsg(s).type
  IN CASE type = T_INIT -> HasCallback(class, "onTaWhen", s.phase[a])
       [] type = T_STAR ->
            /\ HasCallback(class, "onOutWhen", s.phase[a])
            /\ HasCallback(class, "onInternalWhen", s.phase[a])
            /\ HasCallback(class, "onTaWhen", t.phase[a])
       [] type = T_IN ->
            /\ HasCallback(class, "onExternalWhen", s.phase[a])
            /\ (t.time_last[a] # s.time_last[a] \/ t.time_next[a] # s.time_next[a])
                  => HasCallback(class, "onTaWhen", t.phase[a])

\* the handler of an atomic simulator that ran from s to t raised the error of
\* a missing callback: the error names an operation and the phase the model is
\* in, the model has no such callback, and the handler went no further: the
\* simulator's times are those of s and no DONE was queued at the parent
RaisedAndStopped(s, t) ==
  LET a == Top(s).sim
      parent == getParent(s.scn, a)
  IN /\ t.err[3] \in {"onTaWhen", "onOutWhen", "onInternalWhen", "onExternalWhen"}
     /\ t.err[4] = t.phase[a]
     /\ ~HasCallback(ModelClass(s.scn, a), t.err[3], t.err[4])
     /\ t.time_last[a] = s.time_last[a]
     /\ t.time_next[a] = s.time_next[a]
     /\ t.msg_queue[parent][T_DONE] = s.msg_queue[parent][T_DONE]

\* C9: a handler of an atomic simulator that dispatches an operation the model
\* has no callback for in its phase raises an error naming operation and
\* phase; it never goes on with a default value, and after the failed
\* dispatch it updates no time and queues no DONE
C9_MissingCallbackRaises ==
  [][(Dispatching(st, "atomic", T_INIT) \/ Dispatching(st, "atomic", T_STAR)
        \/ Dispatching(st, "atomic", T_IN)) =>
       /\ st'.pc # "error" => DispatchedExist(st, st')
       /\ (st'.pc = "error" /\ Len(st'.err) = 4
             /\ st'.err[2] = "missing method implementation")
            => RaisedAndStopped(st, st')]_vars

\* an internal transition has taken the model to phase x, which has no time
\* advance callback, and the run is aborted with the error naming both
C9_Witness ==
  /\ st.pc = "error"
  /\ st.err = MissingMethod("onTaWhen", "x")
  /\ st.phase["stub"] = "x"
  /\ st.time_last["stub"] = 0 /\ st.time_next["stub"] = 0

\* a spec matches a name set literally / as patterns: every pattern matches at
\* least one name, and the names matched by some pattern are the whole set
MatchesExactly(spec, nameSet) == spec[1] = nameSet
MatchesAsPatterns(spec, nameSet) ==
  /\ \A pat \in spec[1] : \E n \in nameSet : fullmatch(pat, n)
  /\ \A n \in nameSet : \E pat \in spec[1] : fullmatch(pat, n)

\* the reference algorithm: the winner of the first spec that matches
\* literally, otherwise of the first spec that matches as patterns
ReferenceWinner(specs, nameSet) ==
  LET exact == {i \in 1..Len(specs) : MatchesExactly(specs[i], nameSet)}
      pattern == {i \in 1..Len(specs) : MatchesAsPatterns(specs[i], nameSet)}
  IN IF exact # {}
     THEN specs[CHOOSE i \in exact : \A j \in exact : i <= j][2]
     ELSE specs[CHOOSE i \in pattern : \A j \in pattern : i <= j][2]

C11_EarliestMatchingSpecWins ==
  sel.pc = "returned" =>
    LET matching == {i \in 1..Len(sel.specs) :
                       \/ MatchesExactly(sel.specs[i], sel.nameSet)
                       \/ MatchesAsPatterns(sel.specs[i], sel.nameSet)}
    IN matching # {} =>
         sel.result = sel.specs[CHOOSE i \in matching : \A j \in matching : i <= j][2]

\* C12: the spec {proc.*, .*} matches {proc:0, proc:1} and does not match
\* {proc:0}; the spec {proc:0, .*} matches only name sets of two or more
\* names that contain proc:0 (select with one spec returns its winner when
\* the spec matches, False when it does not)
C12_OnePatternPerName ==
  sel.pc = "returned" =>
    /\ sel.specs = << <<{"proc.*", ".*"}, "proc:0">> >> =>
          /\ sel.nameSet = {"proc:0", "proc:1"} => sel.result = "proc:0"
          /\ sel.nameSet = {"proc:0"} => sel.result = False
    /\ (sel.specs = << <<{"proc:0", ".*"}, "proc:0">> >> /\ sel.result # False) =>
          Cardinality(sel.nameSet) >= 2 /\ "proc:0" \in sel.nameSet

RECURSIVE Flatten(_)
Flatten(seqs) == IF seqs = <<>> THEN <<>> ELSE Head(seqs) \o Flatten(Tail(seqs))

\* every <<s, d>> with s of S and d of D, s varying slowest
CrossSeq(S, D) ==
  [k \in 1..(Len(S) * Len(D)) |-> <<S[((k - 1) \div Len(D)) + 1], D[((k - 1) % Len(D)) + 1]>>]

RECURSIVE FirstOccurrences(_)
\* q without the later occurrences of each element
FirstOccurrences(q) ==
  IF q = <<>> THEN <<>>
  ELSE LET r == FirstOccurrences(SubSeq(q, 1, Len(q) - 1))
       IN IF q[Len(q)] \in Range(r) THEN r ELSE Append(r, q[Len(q)])

\* the pairs <<s, d>> the coupling specs of b ask for, in the order of the
\* specs, of their destinations and of the submodels
RequestedPairs(b) ==
  Flatten([i \in 1..Len(b.coupling_specs) |->
    Flatten([j \in 1..Len(b.coupling_specs[i][2]) |->
      CrossSeq(Expand(b.sub_models, b.coupling_specs[i][1]).matches,
               Expand(b.sub_models, b.coupling_specs[i][2][j]).matches)])])

DocumentedCoupling == << <<RangeSpec(Gen, 2, 4), <<RangeSpec(Proc, 0, 2), Proc>> >> >>

\* C13: a built routing table holds, for every source s, the destinations d of
\* the requested pairs <<s, d>>, each exactly once and in the order of their
\* first request, and has no entry for any other source; a coupling from
\* gen[2:4] to (proc[0:2], proc) routes gen:2 and gen:3 to proc:0, proc:1, proc
C13_CouplingsAreRequestedPairs ==
  bld.pc = "built" =>
    LET pairs == RequestedPairs(bld)
        wanted(s) == LET from(p) == p[1] = s
                         ps == SelectSeq(pairs, from)
                     IN FirstOccurrences([k \in 1..Len(ps) |-> ps[k][2]])
    IN /\ DOMAIN bld.couplings = {pairs[k][1] : k \in 1..Len(pairs)}
       /\ \A s \in DOMAIN bld.couplings : bld.couplings[s] = wanted(s)
       /\ (bld.model_specs = FewModels /\ bld.coupling_specs = DocumentedCoupling) =>
            /\ DOMAIN bld.couplings = {Numbered(Gen, 2), Numbered(Gen, 3)}
            /\ \A s \in DOMAIN bld.couplings :
                 bld.couplings[s] = <<Numbered(Proc, 0), Numbered(Proc, 1), Proc>>

\* a table built from couplings that request the same pair twice
C13_Witness ==
  /\ bld.pc = "built"
  /\ \E i, j \in 1..Len(RequestedPairs(bld)) : i # j /\ RequestedPairs(bld)[i] = RequestedPairs(bld)[j]
  /\ bld.couplings # <<>>

\* C14: name[a:b] expands to exactly the submodels name:k with a <= k < b as
\* integers, a bare name to exactly the submodel of that name, self to self
C14_RangeIsIntegerInterval ==
  bld.pc = "built" =>
    \A n \in 1..Len(bld.expanded) :
      LET e == bld.expanded[n]
          models == Range(bld.sub_models)
      IN /\ \A base \in {Gen, Proc} : \A a, b \in 0..MaxCount :
              e.spec = RangeSpec(base, a, b) =>
                Range(e.matches) = {Numbered(base, k) : k \in a..(b - 1)} \cap models
         /\ e.spec \in NameSpecs \ {Self} => Range(e.matches) = {e.spec} \cap models
         /\ e.spec = Self => e.matches = <<Self>>

\* C15: a build that succeeds expanded the source and every destination of
\* every coupling spec to at least one submodel
C15_EmptyExpansionFailsBuild ==
  bld.pc = "built" => \A n \in 1..Len(bld.expanded) : bld.expanded[n].matches # <<>>

\* activate() is called on a simulator whose five queues are all empty
EmptyActivation(s) ==
  /\ Running(s) /\ s.stack # <<>>
  /\ Top(s).f = "activate" /\ Top(s).mt = 0 /\ Top(s).msgs = <<>>
  /\ \A k \in 0..(MSG_COUNT - 1) : s.msg_queue[Top(s).sim][k] = <<>>

\* C16: the activation of a simulator whose five queues are all empty only
\* returns: no handler runs, no phase, state, time_last, time_next or
\* active_children changes, and no message is enqueued anywhere
C16_EmptyActivationIsNoOp ==
  [][EmptyActivation(st) =>
       /\ st'.stack = SubSeq(st.stack, 1, Len(st.stack) - 1)
       /\ st'.ev.op = "activate"
       /\ st'.phase = st.phase /\ st'.state = st.state
       /\ st'.time_last = st.time_last /\ st'.time_next = st.time_next
       /\ st'.active_children = st.active_children
       /\ st'.msg_queue = st.msg_queue /\ st'.inbox = st.inbox
       /\ st'.log = st.log /\ st'.printed = st.printed
       /\ st'.pc = st.pc /\ st'.err = st.err]_vars

\* the root simulator was activated with empty queues after the run had begun
C16_Witness ==
  /\ st.ev.op = "activate" /\ st.ev.note = "nothing"
  /\ st.ev.sim = RootModel(st.scn)
  /\ st.time_last[RootCoord] > 0
  /\ st.log # <<>>

\* the messages of q that did not arrive late, and the one activate handles
\* first among them: the oldest of the lowest kind
OnTime(q) == SelectSeq(q, LAMBDA e : ~e.late)
FirstInKindOrder(q) ==
  LET kind == Min({q[i].msg.type : i \in 1..Len(q)})
  IN q[Min({i \in 1..Len(q) : q[i].msg.type = kind})].msg

\* C17: the message an activation hands to a handler is the oldest message of
\* the lowest kind among those that did not arrive, during this activation,
\* for the current or an already passed kind; when the activation returns the
\* messages still queued are exactly those late arrivals, in their order
C17_KindOrderThenArrivalOrder ==
  /\ (Running(st) /\ st.stack # <<>> /\ Top(st).f = "activate" /\ Top(st).msgs # <<>>) =>
        /\ OnTime(st.inbox[Top(st).sim]) # <<>>
        /\ NextMsg(st) = FirstInKindOrder(OnTime(st.inbox[Top(st).sim]))
  /\ (st.ev.op = "activate" /\ st.ev.note \in {"return", "nothing"}) =>
        /\ OnTime(st.inbox[st.ev.sim]) = <<>>
        /\ \A k \in 0..(MSG_COUNT - 1) :
              st.msg_queue[st.ev.sim][k] =
                LET late == SelectSeq(st.inbox[st.ev.sim], LAMBDA e : e.msg.type = k)
                IN [i \in 1..Len(late) |-> late[i].msg]

\* an activation returned and left queued a message that arrived, while it
\* ran, for a kind it had already reached
C17_Witness ==
  /\ st.ev.op = "activate" /\ st.ev.note = "return"
  /\ st.inbox[st.ev.sim] # <<>>
  /\ \E x \in Coupleds(st.scn) : x \in st.returned /\ st.time_last[x] > 0

\* a coupled simulator is about to handle STAR(t) with t = time_next
StarDue(s) ==
  /\ Dispatching(s, "coupled", T_STAR)
  /\ NextMsg(s).time = s.time_next[Top(s).sim]
\* the children of x whose time_next is t
ImminentSet(s, x, t) == {y \in Range(subModelsSpecs(s.scn)[x]) : s.time_next[y] = t}
\* the only imminent child, or the child select names
NamedWinner(s, x, t) ==
  LET imm == ImminentSet(s, x, t)
  IN IF Cardinality(imm) = 1 THEN CHOOSE y \in imm : TRUE
     ELSE select(getSelectSpecs(s.scn)[x], imm)

\* C18: a coupled simulator handling STAR(t) at t = time_next picks the only
\* imminent child without calling select, otherwise the child select names
\* among the imminent ones, and sends STAR(t) to that child and no other
C18_StarGoesToTheWinner ==
  [][/\ StarDue(st) =>
          LET self == Top(st).sim
              t == NextMsg(st).time
              w == NamedWinner(st, self, t)
          IN w \in ImminentSet(st, self, t) =>
               /\ Running(st')
               /\ Len(st'.stack) = Len(st.stack) + 1
               /\ Top(st').f = "handler" /\ Top(st').sim = self
               /\ Top(st').msg = NextMsg(st) /\ Top(st').dests = <<w>>
     /\ (Looping(st, T_STAR) /\ SimKind(st, Top(st).sim) = "coupled" /\ Top(st).dests # <<>>) =>
          LET self == Top(st).sim
              t == Top(st).msg.time
              w == Head(Top(st).dests)
          IN /\ Top(st).dests = <<NamedWinner(st, self, t)>>
             /\ w \in ImminentSet(st, self, t)
             /\ st'.msg_queue = [st.msg_queue EXCEPT ![w][T_STAR] = Append(@, StarMsg(self, t))]]_vars

\* C19: with several imminent children and a select that matches no spec or
\* names a winner outside of them, onSTAR raises: the run stops there, no
\* message is queued to a child or to the parent, active_children is unchanged
C19_NoWinnerAborts ==
  [][/\ StarDue(st) =>
          LET self == Top(st).sim
              imm == ImminentSet(st, self, NextMsg(st).time)
          IN (Cardinality(imm) > 1 /\ select(getSelectSpecs(st.scn)[self], imm) \notin imm) =>
               /\ st'.pc = "error" /\ st'.err # <<>>
               /\ st'.msg_queue = st.msg_queue
               /\ st'.active_children = st.active_children
               /\ Len(st'.stack) = Len(st.stack)
               /\ st'.time_last = st.time_last /\ st'.time_next = st.time_next
     /\ st.pc = "error" => st' = st]_vars

\* a run stopped by the TypeError of onSTAR, gen and proc both imminent and
\* no select spec declared
C19_Witness ==
  /\ st.scn.model = "NoSelect" /\ st.traced
  /\ st.pc = "error" /\ st.err[1] = "TypeError"
  /\ st.ev.op = "Coupled_onSTAR"
  /\ \A x \in {"gen", "proc"} : st.msg_queue[x][T_STAR] = <<>>
  /\ st.active_children["coupled"] = <<>>

\* the messages that arrived at x during the step from s to t, in their order
Arrived(s, t, x) ==
  [i \in 1..(Len(t.inbox[x]) - Len(s.inbox[x])) |-> t.inbox[x][Len(s.inbox[x]) + i].msg]

\* C20: an atomic simulator handling STAR(t) at t = time_next sends to its
\* parent the output of the phase and state it has before the internal
\* transition, as OUT(self, t, out) and before the DONE of that STAR, sends
\* no OUT when that output is None, and then has made the transition
C20_OutputBeforeInternalTransition ==
  [][(/\ Dispatching(st, "atomic", T_STAR)
      /\ NextMsg(st).time = st.time_next[Top(st).sim]
      /\ HasCallback(ModelClass(st.scn, Top(st).sim), "onOutWhen", st.phase[Top(st).sim])) =>
       LET self == Top(st).sim
           par == getParent(st.scn, self)
           t == NextMsg(st).time
           out == OutValue(st.scn, self, st.phase[self], st.state[self])
           after == InternalValue(st.scn, self, st.phase[self], st.state[self])
           sent == IF out = NoOutput THEN <<>> ELSE <<OutMsg(self, t, out)>>
       IN /\ SubSeq(st'.inbox[par], 1, Len(st.inbox[par])) = st.inbox[par]
          /\ IF st'.pc = "error" THEN Arrived(st, st', par) = sent
             ELSE /\ Arrived(st, st', par) = sent \o <<DoneMsg(self, st'.time_next[self])>>
                  /\ st'.phase[self] = after.phase /\ st'.state[self] = after.state
                  /\ st'.time_last[self] = t]_vars

\* an atomic simulator has sent OUT then DONE for a STAR, and the phase it is
\* in after the internal transition would not give that output
C20_Witness ==
  /\ st.ev.op = "Atomic_onSTAR" /\ st.pc # "error"
  /\ LET self == st.ev.sim
         q == st.inbox[getParent(st.scn, self)]
     IN /\ Len(q) >= 2
        /\ q[Len(q) - 1].msg.type = T_OUT /\ q[Len(q) - 1].msg.from = self
        /\ q[Len(q)].msg = DoneMsg(self, st.time_next[self])
        /\ onOut(st.scn, self, st.phase[self], st.state[self]).val # q[Len(q) - 1].msg.param

\* the external transition an atomic simulator would make of the message
External(s, self, msg) ==
  onExternal(s.scn, self, s.phase[self], s.state[self],
             msg.time - s.time_last[self], msg.param)

\* C21: after an atomic simulator has handled INIT at t, STAR at t, or an IN
\* at t whose external transition is accepted, time_last = t and time_next =
\* t + the time advance of the phase it is then in; the elapsed value the
\* external transition receives is t minus the time_last held before the IN
C21_TimesAfterAtomicHandler ==
  [][(/\ \E type \in {T_INIT, T_STAR, T_IN} : Dispatching(st, "atomic", type)
      /\ st'.pc # "error") =>
       LET self == Top(st).sim
           msg == NextMsg(st)
           t == msg.time
       IN /\ (msg.type = T_IN => st'.elapsed[self] = t - st.time_last[self])
          /\ (msg.type \in {T_INIT, T_STAR} \/ External(st, self, msg).accepted) =>
                /\ st'.time_last[self] = t
                /\ st'.time_next[self] =
                     Plus(t, TaValue(st.scn, self, st'.phase[self]))]_vars

\* an atomic simulator accepted an IN some time after its last event and
\* changed phase, its times being those of the new phase
C21_Witness ==
  /\ st.ev.op = "Atomic_onIN" /\ st.pc # "error"
  /\ LET self == st.ev.sim
     IN /\ st.elapsed[self] > 0
        /\ st.time_last[self] = st.ev.msg.time
        /\ st.phase[self] = "busy"
        /\ st.time_next[self] = st.ev.msg.time + Period(st.scn, self)

\* C22: an atomic simulator handling an IN its external transition rejects
\* keeps its phase, time_last and time_next, and queues exactly one message,
\* DONE(self, time_next), to its parent
C22_RejectedInputKeepsSchedule ==
  [][(/\ Dispatching(st, "atomic", T_IN)
      /\ st'.pc # "error"
      /\ ~External(st, Top(st).sim, NextMsg(st)).accepted) =>
       LET self == Top(st).sim
           par == getParent(st.scn, self)
       IN /\ st'.phase[self] = st.phase[self]
          /\ st'.time_last[self] = st.time_last[self]
          /\ st'.time_next[self] = st.time_next[self]
          /\ st'.msg_queue =
               [st.msg_queue EXCEPT ![par][T_DONE] = Append(@, DoneMsg(self, st.time_next[self]))]
          /\ SubSeq(st'.inbox[par], 1, Len(st.inbox[par])) = st.inbox[par]
          /\ Arrived(st, st', par) = <<DoneMsg(self, st.time_next[self])>>]_vars

\* a busy processor was given a job after its last event and before its
\* next one: it is still busy and scheduled as before, and has acknowledged
C22_Witness ==
  /\ st.ev.op = "Atomic_onIN" /\ st.pc # "error"
  /\ LET self == st.ev.sim
         q == st.inbox[getParent(st.scn, self)]
     IN /\ st.phase[self] = "busy"
        /\ st.time_last[self] < st.ev.msg.time /\ st.ev.msg.time < st.time_next[self]
        /\ st.state[self] # EmptyState
        /\ q # <<>> /\ q[Len(q)].msg = DoneMsg(self, st.time_next[self])

\* a simulator is about to handle a STAR whose time is not its time_next, or
\* an IN whose time is outside of [time_last, time_next]
Mistimed(s) ==
  /\ \E kind \in {"atomic", "coupled"}, type \in {T_STAR, T_IN} : Dispatching(s, kind, type)
  /\ LET self == Top(s).sim
         t == NextMsg(s).time
     IN IF NextMsg(s).type = T_STAR THEN t # s.time_next[self]
        ELSE ~(s.time_last[self] <= t /\ t <= s.time_next[self])

\* C23: a STAR whose time is not the time_next of the atomic or coupled
\* simulator it is sent to, and an IN whose time is outside of its
\* [time_last, time_next], abort the run with an error: no phase, state,
\* time_last, time_next or active_children changes, no child is activated
\* and no message is queued
C23_MistimedMessageAborts ==
  [][/\ Mistimed(st) =>
          /\ st'.pc = "error"
          /\ st'.err = <<"Exception",
                         IF NextMsg(st).type = T_STAR
                         THEN "Star message requested at a time that is not reached yet!"
                         ELSE "In message requested at wrong time">>
          /\ st'.phase = st.phase /\ st'.state = st.state
          /\ st'.time_last = st.time_last /\ st'.time_next = st.time_next
          /\ st'.active_children = st.active_children
          /\ st'.msg_queue = st.msg_queue
          /\ Len(st'.stack) = Len(st.stack)
          /\ \A x \in DOMAIN st.inbox : x # Top(st).sim => st'.inbox[x] = st.inbox[x]
     /\ st.pc = "error" => st'.stack = st.stack /\ st'.msg_queue = st.msg_queue]_vars

\* a run stopped by a mistimed message after the simulator had handled
\* other messages: its times are not those of the message
C23_Witness ==
  /\ st.pc = "error" /\ st.err[1] = "Exception" /\ Len(st.err) = 2
  /\ st.ev.op \in {"Atomic_onSTAR", "Atomic_onIN", "Coupled_onSTAR", "Coupled_onIN"}
  /\ st.time_last[st.ev.sim] > 0
  /\ st.ev.msg.time \notin {st.time_last[st.ev.sim], st.time_next[st.ev.sim]}

\* C25: a coupled simulator handling an OUT whose payload (port, message) has
\* no message forwards nothing and changes nothing; it forwards every OUT
\* whose message is present to the destinations of its sender
C25_OutWithoutMessageIsDiscarded ==
  [][(/\ Dispatching(st, "coupled", T_OUT)
      /\ NextMsg(st).from \in DOMAIN getCouplings(st.scn)[Top(st).sim]) =>
       IF NextMsg(st).param[2] = None
       THEN /\ Len(st'.stack) = Len(st.stack)
            /\ st'.msg_queue = st.msg_queue
            /\ st'.active_children = st.active_children
            /\ st'.pc = st.pc
       ELSE /\ Len(st'.stack) = Len(st.stack) + 1
            /\ Top(st').f = "handler" /\ Top(st').msg = NextMsg(st)
            /\ Top(st').dests = getCouplings(st.scn)[Top(st).sim][NextMsg(st).from]]_vars

\* the routing table of the coupled simulator on top of the stack
Routing(s) == getCouplings(s.scn)[Top(s).sim]

\* C24: a coupled simulator routes as its table says.  It takes up an IN
\* for the children under 'self' and an OUT of a child with an entry for
\* the destinations under that child, in the order of the table; each
\* destination in turn is sent the payload unchanged, a child as IN (from
\* the coupled simulator for an IN, from the child for an OUT), 'self' as
\* OUT to the parent, and no other mailbox changes
C24_RoutedAsTheTableSays ==
  [][/\ (/\ Dispatching(st, "coupled", T_IN)
          /\ st.time_last[Top(st).sim] <= NextMsg(st).time
          /\ NextMsg(st).time <= st.time_next[Top(st).sim]
          /\ "self" \in DOMAIN Routing(st)) =>
            /\ Len(st'.stack) = Len(st.stack) + 1
            /\ Top(st').f = "handler" /\ Top(st').sim = Top(st).sim
            /\ Top(st').msg = NextMsg(st) /\ Top(st').dests = Routing(st)["self"]
     /\ (/\ Dispatching(st, "coupled", T_OUT)
          /\ NextMsg(st).from \in DOMAIN Routing(st)) =>
            /\ Len(st'.stack) = Len(st.stack) + 1
            /\ Top(st').f = "handler" /\ Top(st').sim = Top(st).sim
            /\ Top(st').msg = NextMsg(st)
            /\ Top(st').dests = Routing(st)[NextMsg(st).from]
     /\ (/\ \E type \in {T_IN, T_OUT} : Looping(st, type)
          /\ Top(st).dests # <<>>) =>
            LET self == Top(st).sim
                msg == Top(st).msg
                d == Head(Top(st).dests)
            IN st'.msg_queue =
                 IF msg.type = T_IN
                 THEN [st.msg_queue EXCEPT
                         ![d][T_IN] = Append(@, InMsg(self, msg.time, msg.param))]
                 ELSE IF d = "self"
                 THEN [st.msg_queue EXCEPT
                         ![getParent(st.scn, self)][T_OUT] =
                             Append(@, OutMsg(self, msg.time, msg.param))]
                 ELSE [st.msg_queue EXCEPT
                         ![d][T_IN] = Append(@, InMsg(msg.from, msg.time, msg.param))]]_vars

\* the simulator on top of the stack sends a message to a child in this step
SendsToChild(s, t, x, d) ==
  /\ Looping(s, T_INIT) \/ Looping(s, T_STAR) \/ Looping(s, T_IN) \/ Looping(s, T_OUT)
  /\ Top(s).sim = x /\ Top(s).dests # <<>> /\ Head(Top(s).dests) = d
  /\ d # "self"
  /\ \E k \in {T_INIT, T_STAR, T_IN} : Len(t.msg_queue[d][k]) = Len(s.msg_queue[d][k]) + 1

\* C26: a child is at most once in the active_children of a coupled
\* simulator; it is added when the simulator sends it an INIT, STAR or IN,
\* taken off when the simulator handles a DONE from it, and at no other time
C26_ActiveChildrenHasNoDuplicate ==
  /\ [](\A x \in Coupleds(st.scn) :
          \A i, j \in 1..Len(st.active_children[x]) :
             st.active_children[x][i] = st.active_children[x][j] => i = j)
  /\ [][\A x \in Coupleds(st.scn) :
          IF \E d \in Range(subModelsSpecs(st.scn)[x]) : SendsToChild(st, st', x, d)
          THEN st'.active_children[x] =
                 Append(st.active_children[x], Head(Top(st).dests))
          ELSE IF Dispatching(st, "coupled", T_DONE) /\ Top(st).sim = x /\ st'.pc # "error"
          THEN /\ NextMsg(st).from \in Range(st.active_children[x])
               /\ st'.active_children[x] = Remove(st.active_children[x], NextMsg(st).from)
          ELSE st'.active_children[x] = st.active_children[x]]_vars

\* the activation of a child, called by a handler of its coupled parent, has
\* just returned
ChildReturned(s) ==
  /\ s.ev.op = "activate" /\ s.ev.note \in {"return", "nothing"}
  /\ Running(s) /\ s.stack # <<>>
  /\ Top(s).f = "handler" /\ SimKind(s, Top(s).sim) = "coupled"
\* the DONEs of d waiting in the mailbox of x
DonesOf(s, x, d) == SelectSeq(s.msg_queue[x][T_DONE], LAMBDA m : m.from = d)

\* C27: when the activation of a child that a coupled simulator has sent an
\* INIT, STAR or IN returns, the child has queued one DONE to the coupled
\* simulator for it, the DONE carries the time_next of the child, and the
\* DONEs of the child that wait there are as many as the messages sent to it
C27_OneDonePerActivation ==
  ChildReturned(st) =>
    LET x == Top(st).sim
        d == st.ev.sim
        dones == DonesOf(st, x, d)
    IN /\ dones # <<>>
       /\ dones[Len(dones)].time = st.time_next[d]
       /\ Len(dones) = Len(SelectSeq(st.active_children[x], LAMBDA y : y = d))

\* C28: the root coordinator starts with (time_last, time_next) = (-1, 0);
\* handling DONE(t) it takes its time_next as time_last and t as time_next,
\* queues STAR(t) to the root simulator and activates it at once; it handles
\* only messages that were in its mailbox when its activation began, so what
\* the simulator answers waits for the next one, and it handles a DONE only
\* when no OUT of that activation is left
C28_RootAnswersDoneWithStar ==
  /\ [](st.pc = "start" =>
          st.time_last[RootCoord] = -1 /\ st.time_next[RootCoord] = 0)
  /\ [][/\ Dispatching(st, "root", T_DONE) =>
              LET sim == RootModel(st.scn)
                  t == NextMsg(st).time
              IN /\ st'.time_last[RootCoord] = st.time_next[RootCoord]
                 /\ st'.time_next[RootCoord] = t
                 /\ st'.msg_queue =
                      [st.msg_queue EXCEPT ![sim][T_STAR] = Append(@, StarMsg(RootCoord, t))]
                 /\ st'.stack = Append(Taken(st).stack, ActivateFrame(sim))
                 /\ \A i \in 1..Len(st.inbox[RootCoord]) :
                       st.inbox[RootCoord][i].msg.type = T_OUT => st.inbox[RootCoord][i].late
        /\ (\E type \in {T_OUT, T_DONE} : Dispatching(st, "root", type)) =>
              \E i \in 1..Len(st.inbox[RootCoord]) :
                 /\ st.inbox[RootCoord][i].msg = NextMsg(st)
                 /\ ~st.inbox[RootCoord][i].late
        /\ (/\ Len(st.stack) > 1 /\ st.stack[1].sim = RootCoord
            /\ Len(st'.inbox[RootCoord]) > Len(st.inbox[RootCoord])) =>
              /\ st'.stack[1] = st.stack[1]
              /\ st'.inbox[RootCoord][Len(st'.inbox[RootCoord])].late]_vars

\* the root coordinator has handled an OUT and then the DONE that the root
\* simulator queued with it: both were answers to the STAR of its time_last
C28_Witness ==
  /\ st.ev.op = "Root_onDONE" /\ st.pc # "error"
  /\ st.printed # <<>>
  /\ st.printed[Len(st.printed)].time = st.time_last[RootCoord]
  /\ st.time_last[RootCoord] > 0
  /\ st.time_next[RootCoord] = st.ev.msg.time
  /\ Top(st) = ActivateFrame(RootModel(st.scn))

\* C29: when the activation of a simulator other than the root coordinator
\* has returned, its five queues are empty and, if it is coupled, so is its
\* active_children
C29_NothingLeftAfterActivation ==
  (/\ st.ev.op = "activate" /\ st.ev.note \in {"return", "nothing"}
   /\ st.pc # "error" /\ st.ev.sim # RootCoord) =>
     /\ \A k \in 0..(MSG_COUNT - 1) : st.msg_queue[st.ev.sim][k] = <<>>
     /\ st.ev.sim \in Coupleds(st.scn) => st.active_children[st.ev.sim] = <<>>

\* C30: in a run of the root coordinator over a tree whose time advances are
\* not negative no check of the protocol fails: a simulator about to handle
\* a STAR has its time_next equal to the time of the STAR, and children that
\* are imminent at that time if it is coupled; one about to handle an IN has
\* the time of the IN within [time_last, time_next]; a coupled simulator
\* about to handle a DONE has its sender in active_children
C30_NoTimingCheckFails ==
  (st.scn.p >= 0 /\ st.scn.q >= 0 /\ st.stack # <<>> /\ Top(st).sim # RootCoord) =>
    LET self == Top(st).sim
    IN /\ (\E kind \in {"atomic", "coupled"} : Dispatching(st, kind, T_STAR)) =>
            NextMsg(st).time = st.time_next[self]
       /\ Dispatching(st, "coupled", T_STAR) =>
            findImminents(st, self, NextMsg(st).time) # <<>>
       /\ (\E kind \in {"atomic", "coupled"} : Dispatching(st, kind, T_IN)) =>
            /\ st.time_last[self] <= NextMsg(st).time
            /\ NextMsg(st).time <= st.time_next[self]
       /\ Dispatching(st, "coupled", T_DONE) =>
            NextMsg(st).from \in Range(st.active_children[self])

\* a coupled simulator inside of another is about to handle an IN that comes
\* after its last event and before its next one
C30_Witness ==
  /\ Dispatching(st, "coupled", T_IN)
  /\ getParent(st.scn, Top(st).sim) # RootCoord
  /\ st.time_last[Top(st).sim] < NextMsg(st).time
  /\ NextMsg(st).time < st.time_next[Top(st).sim]
  /\ st.time_last[Top(st).sim] > 0

\* the STAR messages that were sent and are not handled yet
PendingStars(s) ==
  UNION {{<<x, i>> : i \in {k \in 1..Len(s.inbox[x]) : s.inbox[x][k].msg.type = T_STAR}} :
           x \in DOMAIN s.inbox}
\* the earliest time_next of the atomic simulators of the tree
EarliestEvent(s) == Min({s.time_next[a] : a \in Atomics(s.scn)})

\* C31: the STAR the root coordinator has just sent carries the least
\* time_next of the atomic simulators of the tree, which is not before the
\* time of the STAR before it; the STAR is the only one under way, and the
\* atomic simulator that comes to handle it is one whose time_next is that
\* least time, so that no event scheduled earlier is left behind
C31_StarAtEarliestEvent ==
  /\ Cardinality(PendingStars(st)) <= 1
  /\ (st.ev.op = "Root_onDONE" /\ st.pc # "error") =>
       /\ st.msg_queue[RootModel(st.scn)][T_STAR] =
            <<StarMsg(RootCoord, st.time_next[RootCoord])>>
       /\ st.time_next[RootCoord] = EarliestEvent(st)
       /\ st.time_next[RootCoord] >= st.time_last[RootCoord]
       /\ PendingStars(st) = {<<RootModel(st.scn), 1>>}
  /\ Dispatching(st, "atomic", T_STAR) =>
       /\ NextMsg(st).time = st.time_next[RootCoord]
       /\ NextMsg(st).time = EarliestEvent(st)
       /\ st.time_next[Top(st).sim] = EarliestEvent(st)
       /\ Cardinality(PendingStars(st)) = 1

\* the root coordinator has sent a STAR for an event later than the one
\* before, while another atomic simulator has its own event scheduled after it
C31_Witness ==
  /\ st.ev.op = "Root_onDONE" /\ st.pc # "error"
  /\ st.time_last[RootCoord] > 0
  /\ st.time_next[RootCoord] > st.time_last[RootCoord]
  /\ \E a, b \in Atomics(st.scn) :
        /\ st.time_next[a] = st.time_next[RootCoord]
        /\ st.time_next[b] > st.time_next[a] /\ st.time_next[b] < inf

\* C32: the root coordinator sends no STAR whose time is after the end time,
\* and no atomic simulator makes an internal transition, an output or an
\* external transition at a time after the end time
C32_NoStarAfterEndTime ==
  /\ (st.ev.op = "Root_onDONE" /\ st.pc # "error") =>
       st.time_next[RootCoord] <= st.scn.e
  /\ \A i \in 1..Len(st.log) :
        (st.log[i].type \in {T_STAR, T_IN} /\ st.log[i].note # "raise") =>
          st.log[i].time <= st.scn.e

\* the OUT messages waiting in the mailbox of the root coordinator
RootOuts(s) == s.msg_queue[RootCoord][T_OUT]

\* C33: when start has returned, every OUT left in the mailbox of the root
\* coordinator has a time that is not before the end time; an OUT leaves the
\* mailbox only with the activation that copies the queue, and each OUT of
\* the copy is handled by onOUT, which prints its payload
C33_OutBeforeEndTimeIsHandled ==
  /\ [](st.pc = "done" =>
          \A i \in 1..Len(RootOuts(st)) : RootOuts(st)[i].time >= st.scn.e)
  /\ [][/\ RootOuts(st') # RootOuts(st) =>
              \/ /\ Len(RootOuts(st')) = Len(RootOuts(st)) + 1
                 /\ SubSeq(RootOuts(st'), 1, Len(RootOuts(st))) = RootOuts(st)
              \/ /\ st.stack # <<>> /\ Top(st).sim = RootCoord /\ Top(st).msgs = <<>>
                 /\ RootOuts(st') = <<>> /\ Top(st').msgs = RootOuts(st)
        /\ Dispatching(st, "root", T_OUT) =>
              /\ st'.ev.op = "Root_onOUT" /\ st'.ev.msg = NextMsg(st)
              /\ Top(st').msgs = Tail(Top(st).msgs)
              /\ Len(st.printed) < MaxLog =>
                    st'.printed = Append(st.printed, [time |-> NextMsg(st).time,
                                                      param |-> NextMsg(st).param])]_vars

\* start has returned after the root coordinator has printed an output made
\* before the end time, and an output made after it waits in the mailbox
C33_Witness ==
  /\ st.pc = "done"
  /\ \E i \in 1..Len(st.printed) : st.printed[i].time < st.scn.e
  /\ RootOuts(st) # <<>>

\* C34: no STAR is sent for the time +infinity: no simulator has a STAR of
\* that time waiting, and no atomic simulator whose time_next is +infinity
\* comes to handle a STAR
C34_NoStarForPassiveModel ==
  /\ \A p \in PendingStars(st) : st.inbox[p[1]][p[2]].msg.time < inf
  /\ Dispatching(st, "atomic", T_STAR) => st.time_next[Top(st).sim] < inf

\* C35: a coupled simulator that handles an OUT, message present, of a
\* child without an entry in its routing table, or an IN while the table has
\* no entry 'self', sends nothing and goes on: the run is not aborted
C35_UnroutedMessageIsDropped ==
  [][(/\ Running(st)
      /\ \/ /\ Dispatching(st, "coupled", T_OUT)
            /\ NextMsg(st).param[1] # None /\ NextMsg(st).param[2] # None
            /\ NextMsg(st).from \notin DOMAIN Routing(st)
         \/ /\ Dispatching(st, "coupled", T_IN)
            /\ "self" \notin DOMAIN Routing(st)) =>
       /\ st'.pc # "error"
       /\ st'.msg_queue = st.msg_queue
       /\ st'.active_children = st.active_children]_vars

====
